---- MODULE Spec2Model ----
(***************************************************************************)
(* A model of sync_submissions_to_docs.py: the batch store, the table      *)
(* locator (choose_table_by_section), the table rebuilder                  *)
(* (clear_table_body, append_rows_and_fill_docs, rebuild_table_from_batch) *)
(* and the orchestrator (sync).                                            *)
(*                                                                         *)
(* Strings are sequences of one-character strings, so that parsing,        *)
(* normalisation and character offsets are computed and not assumed.       *)
(* The remote document is a sequence of top-level elements; character      *)
(* offsets are computed from it the way the document API lays a body out.  *)
(***************************************************************************)
EXTENDS Integers, Sequences, FiniteSets, TLC

VARIABLES
    pc,              \* position of the running program
    runs,            \* runs of sync started so far
    outcome,         \* how the current run ended: rebuilt, dry, nodocs, failed, crashed
    cfg,             \* DRY_RUN and ENABLE_DOCS
    section,         \* DOC_SECTION
    source,          \* the row source of the current run: its pages of rows
    page,            \* the page sync fetches next
    batch,           \* sync's in-memory store
    file,            \* BATCH_FILE
    doc,             \* the remote document: body.content
    snap,            \* the snapshot documents().get returned last
    located,         \* the value choose_table_by_section returned last
    matches,         \* choose_table_by_section's local `matches` at its return
    diag,            \* the "multiple tables matched" diagnostic printed last
    row_count,       \* append_rows_and_fill_docs: len(table["tableRows"])
    start_index,     \* the table start offset the next request carries
    attempts,        \* clear_table_body's count of failed deletes (0 once it has returned True)
    rows_data,       \* the rows handed to append_rows_and_fill_docs
    insert_requests, \* the sorted insertText requests of the fill
    chunk_at,        \* the fill's position in insert_requests
    failures,        \* single failures of external calls so far
    outage,          \* whether the remote service is in an outage
    lineage,         \* history: the entries of the store this run loaded, then those it accepted
    committed,       \* history: the store as last written whole to BATCH_FILE
    saved,           \* history: whether this run's save_batch wrote the file
    prev_run,        \* history: how the previous run ended
    snap_fresh,      \* history: whether snap was fetched after the last request sent
    last_req,        \* history: the last deleteTableRow request and what it did
    insert_sent,     \* history: whether this run issued an insertTableRow or insertText
    clear_ret,       \* history: what clear_table_body returned in this run
    clear_start,     \* history: the located table's rows when the clear started
    created,         \* history: the rows the insert-row batch created
    sent_inserts,    \* history: the insertText requests sent, in order
    database,        \* the Notion database: its pages, in the order of creation
    item_at,         \* the Notion sync's position in the rows of the page fetched
    total,           \* the Notion sync's count of rows processed
    existing,        \* what find_page_by_number returned for the row at hand
    cells            \* the cells of one snapshot row, as the fill reads them

cfgv == <<cfg, section>>
locv == <<located, matches, diag>>
envv == <<failures, outage>>
appendv == <<row_count, start_index, rows_data, insert_requests, chunk_at>>
storeh == <<lineage, committed, saved, prev_run>>
rebuildh == <<snap_fresh, last_req, insert_sent, clear_ret, clear_start, created, sent_inserts>>
notionv == <<database, item_at, total, existing>>

vars == <<pc, runs, outcome, cfgv, source, page, batch, file, doc, snap, locv, attempts,
          appendv, envv, storeh, rebuildh, notionv, cells>>

----------------------------------------------------------------------------
(* Bounds of the model.                                                    *)

\* longest document body (elements) the locator is tried on
MaxElems == 5
\* longest DOC_SECTION string (characters) the locator is tried on
MaxPathLen == 3
\* runs of sync in one behaviour
MaxRuns == 2
\* single failures of external calls in one behaviour
MaxFailures == 1

----------------------------------------------------------------------------
(* Characters and strings.                                                 *)

UpperChars == <<"A","B","C","D","E","F","G","H","I","J","K","L","M",
                "N","O","P","Q","R","S","T","U","V","W","X","Y","Z">>
LowerChars == <<"a","b","c","d","e","f","g","h","i","j","k","l","m",
                "n","o","p","q","r","s","t","u","v","w","x","y","z">>
DigitChars == <<"0","1","2","3","4","5","6","7","8","9">>
SpaceChars == {" ", "\t", "\n"}

Range(s) == {s[i] : i \in DOMAIN s}

\* str.isalnum() of one character
isalnum(ch) == ch \in Range(UpperChars) \cup Range(LowerChars) \cup Range(DigitChars)
\* str.isspace() of one character
isspace(ch) == ch \in SpaceChars
\* str.isdigit() of one character
isdigit(ch) == ch \in Range(DigitChars)

\* str.casefold() of one character: a string ("ß" folds to "ss")
casefold_char(ch) ==
    IF \E i \in DOMAIN UpperChars : UpperChars[i] = ch
    THEN <<LowerChars[CHOOSE i \in DOMAIN UpperChars : UpperChars[i] = ch]>>
    ELSE IF ch = "ß" THEN <<"s", "s">> ELSE <<ch>>

RECURSIVE casefold(_)
casefold(s) == IF s = <<>> THEN <<>> ELSE casefold_char(Head(s)) \o casefold(Tail(s))

RECURSIVE lstrip(_)
lstrip(s) == IF s # <<>> /\ isspace(Head(s)) THEN lstrip(Tail(s)) ELSE s

RECURSIVE rstrip(_)
rstrip(s) ==
    IF s # <<>> /\ isspace(s[Len(s)]) THEN rstrip(SubSeq(s, 1, Len(s) - 1)) ELSE s

\* str.strip()
strip(s) == rstrip(lstrip(s))

\* re.sub(r"\s+", " ", s): every run of whitespace becomes one space
RECURSIVE collapse_ws(_)
collapse_ws(s) ==
    IF s = <<>> THEN <<>>
    ELSE IF isspace(Head(s))
         THEN <<" ">> \o collapse_ws(lstrip(s))
         ELSE <<Head(s)>> \o collapse_ws(Tail(s))

\* a normalisation that keeps the letter case
normalize_keeps_case(s) ==
    IF s = <<>> THEN <<>>
    ELSE strip(collapse_ws([i \in DOMAIN s |->
                               IF isalnum(s[i]) \/ isspace(s[i]) THEN s[i] ELSE " "]))

\* choose_table_by_section.normalize
normalize(s) ==
    IF s = <<>> THEN <<>>
    ELSE LET folded == casefold(s)
             s_norm == [i \in DOMAIN folded |->
                          IF isalnum(folded[i]) \/ isspace(folded[i])
                          THEN folded[i] ELSE " "]
         IN  strip(collapse_ws(s_norm))

\* re.split(r">|\||->|/", path): the raw parts, in order
RECURSIVE re_split(_, _)
re_split(s, cur) ==
    IF s = <<>> THEN <<cur>>
    ELSE IF Head(s) \in {">", "|", "/"}
         THEN <<cur>> \o re_split(Tail(s), <<>>)
         ELSE IF Head(s) = "-" /\ Len(s) >= 2 /\ s[2] = ">"
              THEN <<cur>> \o re_split(Tail(Tail(s)), <<>>)
              ELSE re_split(Tail(s), Append(cur, Head(s)))

RECURSIVE keep_nonempty_norm(_)
keep_nonempty_norm(parts) ==
    IF parts = <<>> THEN <<>>
    ELSE LET norm == normalize(Head(parts))
         IN  (IF norm # <<>> THEN <<norm>> ELSE <<>>) \o keep_nonempty_norm(Tail(parts))

\* choose_table_by_section.split_section_path
split_section_path(path) ==
    IF path = <<>> THEN <<>> ELSE keep_nonempty_norm(re_split(path, <<>>))

----------------------------------------------------------------------------
(* Numbers and dates as text.                                              *)

\* the absent value (Python's None) where an integer is expected
None == -1

DigitVal(ch) == (CHOOSE i \in DOMAIN DigitChars : DigitChars[i] = ch) - 1

all_digits(s) == \A i \in DOMAIN s : isdigit(s[i])

RECURSIVE digits_value(_)
digits_value(s) ==
    IF s = <<>> THEN 0 ELSE 10 * digits_value(SubSeq(s, 1, Len(s) - 1)) + DigitVal(s[Len(s)])

\* int(s): [ok, value]; ok is FALSE where int() raises ValueError
int_of(s) ==
    LET t == strip(s)
        signed == t # <<>> /\ Head(t) \in {"+", "-"}
        body == IF signed THEN Tail(t) ELSE t
    IN  IF body # <<>> /\ all_digits(body)
        THEN [ok |-> TRUE,
              value |-> IF signed /\ Head(t) = "-" THEN 0 - digits_value(body)
                        ELSE digits_value(body)]
        ELSE [ok |-> FALSE, value |-> 0]

Pad2(n) == <<DigitChars[(n \div 10) + 1], DigitChars[(n % 10) + 1]>>
Pad4(n) == <<DigitChars[(n \div 1000) + 1], DigitChars[((n \div 100) % 10) + 1],
             DigitChars[((n \div 10) % 10) + 1], DigitChars[(n % 10) + 1]>>

IsLeap(y) == (y % 4 = 0 /\ y % 100 # 0) \/ y % 400 = 0
DaysInMonth(y, m) ==
    IF m = 2 THEN (IF IsLeap(y) THEN 29 ELSE 28)
    ELSE IF m \in {4, 6, 9, 11} THEN 30 ELSE 31

NoTime == [ok |-> FALSE, Y |-> 0, m |-> 0, d |-> 0, H |-> 0, M |-> 0, S |-> 0]

\* the range of values a strptime directive accepts, and its widths, widest first
DirectiveMax(dv) ==
    CASE dv = "%Y" -> 9999 [] dv = "%m" -> 12 [] dv = "%d" -> 31
      [] dv = "%H" -> 23 [] dv = "%M" -> 59 [] dv = "%S" -> 61
DirectiveMin(dv) == IF dv \in {"%Y", "%m", "%d"} THEN 1 ELSE 0
DirectiveWidths(dv) == IF dv = "%Y" THEN <<4>> ELSE <<2, 1>>
IsDirective(f) == f \in {"%Y", "%m", "%d", "%H", "%M", "%S"}

SetField(t, dv, v) ==
    CASE dv = "%Y" -> [t EXCEPT !.Y = v] [] dv = "%m" -> [t EXCEPT !.m = v]
      [] dv = "%d" -> [t EXCEPT !.d = v] [] dv = "%H" -> [t EXCEPT !.H = v]
      [] dv = "%M" -> [t EXCEPT !.M = v] [] dv = "%S" -> [t EXCEPT !.S = v]

\* datetime.strptime's match of s against the format fmt (a sequence of
\* directives and literal characters), left to right, a directive trying
\* its widths widest first; acc holds the fields read so far.
RECURSIVE strptime_match(_, _, _)
RECURSIVE strptime_widths(_, _, _, _)
strptime_widths(s, fmt, acc, ws) ==
    IF ws = <<>> THEN NoTime
    ELSE LET w == Head(ws)
             dv == Head(fmt)
             narrower == Tail(ws)
             or_narrower(got) == IF got.ok THEN got ELSE strptime_widths(s, fmt, acc, narrower)
             with_value(v) ==
                 or_narrower(IF v >= DirectiveMin(dv) /\ v <= DirectiveMax(dv)
                             THEN strptime_match(SubSeq(s, w + 1, Len(s)), Tail(fmt),
                                                 SetField(acc, dv, v))
                             ELSE NoTime)
         IN  with_value(IF Len(s) >= w /\ all_digits(SubSeq(s, 1, w))
                        THEN digits_value(SubSeq(s, 1, w)) ELSE None)
strptime_match(s, fmt, acc) ==
    IF fmt = <<>> THEN (IF s = <<>> THEN [acc EXCEPT !.ok = TRUE] ELSE NoTime)
    ELSE IF IsDirective(Head(fmt)) THEN strptime_widths(s, fmt, acc, DirectiveWidths(Head(fmt)))
    ELSE IF Head(fmt) = " "
         THEN (IF s # <<>> /\ isspace(Head(s))
               THEN strptime_match(lstrip(s), Tail(fmt), acc) ELSE NoTime)
    ELSE IF s # <<>> /\ Head(s) = Head(fmt) THEN strptime_match(Tail(s), Tail(fmt), acc)
    ELSE NoTime

\* datetime.strptime(s, fmt): ok is FALSE where it raises ValueError
strptime(s, fmt) ==
    LET valid(t) == IF t.ok /\ t.d <= DaysInMonth(t.Y, t.m) /\ t.S <= 59 THEN t ELSE NoTime
    IN  valid(strptime_match(s, fmt, [NoTime EXCEPT !.Y = 1900, !.m = 1, !.d = 1]))

TIME_FORMATS ==
    << <<"%Y", "-", "%m", "-", "%d", " ", "%H", ":", "%M", ":", "%S">>,
       <<"%Y", "/", "%m", "/", "%d", " ", "%H", ":", "%M", ":", "%S">>,
       <<"%d", "-", "%m", "-", "%Y", " ", "%H", ":", "%M", ":", "%S">>,
       <<"%d", "/", "%m", "/", "%Y", " ", "%H", ":", "%M", ":", "%S">> >>

\* whether s carries, at position i, \d{4}-\d{2}-\d{2}[ T]\d{2}:\d{2}:\d{2}
iso_at(s, i) ==
    /\ i + 18 <= Len(s)
    /\ \A k \in {0, 1, 2, 3, 5, 6, 8, 9, 11, 12, 14, 15, 17, 18} : isdigit(s[i + k])
    /\ s[i + 4] = "-" /\ s[i + 7] = "-"
    /\ s[i + 10] \in {" ", "T"}
    /\ s[i + 13] = ":" /\ s[i + 16] = ":"

\* datetime.fromisoformat of the 19 characters at position i
fromisoformat_at(s, i) ==
    LET v(a, b) == digits_value(SubSeq(s, i + a, i + b))
        t == [ok |-> TRUE, Y |-> v(0, 3), m |-> v(5, 6), d |-> v(8, 9),
              H |-> v(11, 12), M |-> v(14, 15), S |-> v(17, 18)]
    IN  IF /\ t.Y >= 1 /\ t.m \in 1..12 /\ t.d >= 1 /\ t.d <= DaysInMonth(t.Y, t.m)
           /\ t.H <= 23 /\ t.M <= 59 /\ t.S <= 59
        THEN t ELSE NoTime

RECURSIVE try_formats(_, _)
try_formats(s, fmts) ==
    IF fmts = <<>> THEN NoTime
    ELSE LET or_next(t) == IF t.ok THEN t ELSE try_formats(s, Tail(fmts))
         IN  or_next(strptime(s, Head(fmts)))

\* try_parse_time: ok is FALSE where it returns None
try_parse_time(text) ==
    LET search(s, I) ==
            IF I # {} THEN fromisoformat_at(s, CHOOSE i \in I : \A k \in I : i <= k)
            ELSE NoTime
        or_search(s, t) == IF t.ok THEN t ELSE search(s, {i \in DOMAIN s : iso_at(s, i)})
        parse(s) == or_search(s, try_formats(s, TIME_FORMATS))
    IN  parse(strip(text))

\* dt.strftime("%d-%m-%Y")
strftime_dmy(t) == Pad2(t.d) \o <<"-">> \o Pad2(t.m) \o <<"-">> \o Pad4(t.Y)

\* a datetime at midnight (date_key's format reads no time of day) as a
\* number that orders as datetimes do
Ordinal(t) == (t.Y * 100 + t.m) * 100 + t.d

\* datetime.min
datetime_min == Ordinal([NoTime EXCEPT !.Y = 1, !.m = 1, !.d = 1])

\* rebuild_table_from_batch.date_key
date_key(s) ==
    LET key(t) == IF t.ok THEN Ordinal(t) ELSE datetime_min
    IN  key(strptime(s, <<"%d", "-", "%m", "-", "%Y">>))

----------------------------------------------------------------------------
(* The classifier: a scraped row becomes a batch entry, or is rejected.    *)

\* problem_topics.json, the reference lookup: records {code, title, sub_group}
problem_topics ==
    << [code |-> <<"9">>, title |-> <<"J", "1">>, sub_group |-> <<"S">>],
       [code |-> <<"1", "0">>, title |-> <<"J", "2">>, sub_group |-> <<"T">>],
       [code |-> <<"K">>, title |-> <<"J", "3">>, sub_group |-> <<"S">>] >>

\* s.rstrip('/')
RECURSIVE rstrip_slash(_)
rstrip_slash(s) ==
    IF s # <<>> /\ s[Len(s)] = "/" THEN rstrip_slash(SubSeq(s, 1, Len(s) - 1)) ELSE s

\* s.split('/')[-1]
RECURSIVE last_segment(_)
last_segment(s) ==
    IF \E i \in DOMAIN s : s[i] = "/"
    THEN last_segment(SubSeq(s, (CHOOSE i \in DOMAIN s : s[i] = "/") + 1, Len(s)))
    ELSE s

\* getCodeAndTopic: the tuple it returns: (number, code, topic) when the
\* lookup holds the code (the last record of a title wins, as in the dict
\* built from the list), and ("", "") from its except clause when unpacking
\* the default "Unknown" raises
getCodeAndTopic(problem_url) ==
    LET found(code_key, I) ==
            IF I # {}
            THEN LET it == problem_topics[CHOOSE i \in I : \A k \in I : k <= i]
                 IN  <<it.code, code_key, it.sub_group>>
            ELSE << <<>>, <<>> >>
        lookup(code_key) ==
            found(code_key, {i \in DOMAIN problem_topics : problem_topics[i].title = code_key})
    IN  lookup(last_segment(rstrip_slash(problem_url)))

lower_char(ch) ==
    IF \E i \in DOMAIN UpperChars : UpperChars[i] = ch
    THEN LowerChars[CHOOSE i \in DOMAIN UpperChars : UpperChars[i] = ch]
    ELSE ch

\* a compiler name compared as written
keep_case(s) == s

\* str.lower()
lower(s) == [i \in DOMAIN s |-> lower_char(s[i])]

NoEntry == [date |-> <<>>, topic |-> <<>>, number |-> <<>>, problem |-> <<>>, result |-> <<>>]

\* make_batch_entry: kind "none" where it returns None, "raise" where
\* unpacking getCodeAndTopic's two-element tuple into three names raises
make_batch_entry(item) ==
    LET date_text(dt) == IF dt.ok THEN strftime_dmy(dt) ELSE item.time_text
        entry_of(res, date, got) ==
            IF Len(got) # 3 THEN [kind |-> "raise", entry |-> NoEntry]
            ELSE [kind |-> "entry",
                  entry |-> [date |-> date, topic |-> got[3], number |-> got[1],
                             problem |-> item.problem, result |-> res]]
        made(res, is_java, url) ==
            IF res # <<"A", "C">> \/ ~is_java THEN [kind |-> "none", entry |-> NoEntry]
            ELSE IF url = <<>> THEN [kind |-> "none", entry |-> NoEntry]
            ELSE entry_of(res, date_text(try_parse_time(item.time_text)), getCodeAndTopic(url))
    IN  made(strip(item.result), lower(strip(item.compiler)) = <<"j", "a", "v", "a">>,
             item.problem_url)

----------------------------------------------------------------------------
(* The batch store: an ordered mapping from number to entry, as a sequence *)
(* of [key, entry] pairs with distinct keys; BATCH_FILE holds it as JSON.  *)

\* a membership test that finds no key
never_has_key(store, key) == FALSE

\* key in batch
has_key(store, key) == \E i \in DOMAIN store : store[i].key = key

\* a merge in which the later entry of a number replaces the earlier one
merge_last_wins(store, entry) ==
    IF ~has_key(store, entry.number)
    THEN Append(store, [key |-> entry.number, entry |-> entry])
    ELSE [i \in DOMAIN store |->
            IF store[i].key = entry.number THEN [key |-> entry.number, entry |-> entry]
            ELSE store[i]]

\* sync's merge of one accepted entry: insert under entry["number"] if absent
merge_entry(store, entry) ==
    IF ~has_key(store, entry.number)
    THEN Append(store, [key |-> entry.number, entry |-> entry])
    ELSE store

\* One page of rows merged into the batch, row by row; raised is TRUE when
\* make_batch_entry raised (the rows before it are merged).
RECURSIVE merge_rows(_, _)
merge_rows(store, rows) ==
    IF rows = <<>> THEN [raised |-> FALSE, store |-> store]
    ELSE LET merge_made(made) ==
                 IF made.kind = "raise" THEN [raised |-> TRUE, store |-> store]
                 ELSE IF made.kind = "none" THEN merge_rows(store, Tail(rows))
                 ELSE merge_rows(merge_entry(store, made.entry), Tail(rows))
         IN  merge_made(make_batch_entry(Head(rows)))

\* BATCH_FILE: missing, empty, malformed, a JSON value that is no object, or
\* a JSON object (its members in file order)
MissingFile == [kind |-> "missing", pairs |-> <<>>]
MalformedFile == [kind |-> "malformed", pairs |-> <<>>]
EmptyFile == [kind |-> "empty", pairs |-> <<>>]

\* a JSON value that is no object: an array holding what `members` holds
NonObjectFile(members) == [kind |-> "value", pairs |-> members]

\* json.dump of the mapping: its members in insertion order
json_dump(store) == [kind |-> "object", pairs |-> store]

\* json.loads of an object: a dict of its members, a repeated key keeping
\* its first place and its last value
RECURSIVE json_object(_, _)
json_object(pairs, acc) ==
    IF pairs = <<>> THEN acc
    ELSE LET p == Head(pairs)
         IN  IF has_key(acc, p.key)
             THEN json_object(Tail(pairs),
                              [i \in DOMAIN acc |-> IF acc[i].key = p.key THEN p ELSE acc[i]])
             ELSE json_object(Tail(pairs), Append(acc, p))

\* a load that takes any JSON value for the mapping
load_any_json(f) == json_object(f.pairs, <<>>)

\* load_batch: {} for a missing file, for an empty one, from the except
\* clause when json.loads raises, and for a value that is no dict
load_batch(f) ==
    IF f.kind = "missing" THEN <<>>
    ELSE IF f.kind = "empty" THEN <<>>
    ELSE IF f.kind = "malformed" THEN <<>>
    ELSE IF f.kind = "object" THEN json_object(f.pairs, <<>>)
    ELSE <<>>

\* save_batch: the file it leaves. how = "ok": the dump; "open_failed":
\* open() raised and the file is as it was; "write_failed": the dump raised
\* after open() truncated the file. It prints a warning and returns in all.
save_batch(f, data, how) ==
    CASE how = "ok" -> json_dump(data)
      [] how = "open_failed" -> f
      [] how = "write_failed" -> MalformedFile

----------------------------------------------------------------------------
(* rebuild_table_from_batch: the order and the text of the rows.           *)

\* the sort key of an item: (date_key(date), int(number)); ok is FALSE
\* where int() raises
sort_key(it) ==
    LET key(n) == [ok |-> n.ok, date |-> date_key(it.date), number |-> n.value]
    IN  key(int_of(it.number))

\* the comparison of an ascending sort
key_le(a, b) == a.date < b.date \/ (a.date = b.date /\ a.number <= b.number)

\* key tuples compared as Python compares tuples: a >= b
key_ge(a, b) == a.date > b.date \/ (a.date = b.date /\ a.number >= b.number)

\* x put into a descending list behind every item whose key is >= its own
RECURSIVE insert_desc(_, _)
insert_desc(sorted, x) ==
    IF sorted = <<>> THEN <<x>>
    ELSE IF key_ge(sort_key(Head(sorted)), sort_key(x))
         THEN <<Head(sorted)>> \o insert_desc(Tail(sorted), x)
         ELSE <<x>> \o sorted

RECURSIVE sort_desc(_, _)
sort_desc(items, acc) ==
    IF items = <<>> THEN acc ELSE sort_desc(Tail(items), insert_desc(acc, Head(items)))

\* items.sort(key=..., reverse=True): stable, descending; ok is FALSE
\* where a key raises ValueError
sort_items(items) ==
    IF \E i \in DOMAIN items : ~sort_key(items[i]).ok
    THEN [ok |-> FALSE, items |-> items]
    ELSE [ok |-> TRUE, items |-> sort_desc(items, <<>>)]

\* the row of text of an item: date | topic | number | problem | result
row_of(it) == <<it.date, it.topic, it.number, it.problem, it.result>>

\* list(batch.values())
batch_values(store) == [i \in DOMAIN store |-> store[i].entry]

\* the rows rebuild_table_from_batch hands to append_rows_and_fill_docs
rows_of_batch(store) ==
    LET rows(sorted) ==
            [ok |-> sorted.ok, rows |-> [i \in DOMAIN sorted.items |-> row_of(sorted.items[i])]]
    IN  rows(sort_items(batch_values(store)))

----------------------------------------------------------------------------
(* The document body: a sequence of elements, each a paragraph (style and  *)
(* text), a table (rows of cells, each cell one paragraph of text) or      *)
(* another element (a section break).                                      *)

Para(style, text) == [kind |-> "paragraph", style |-> style, text |-> text, rows |-> <<>>]
Table(rows) == [kind |-> "table", style |-> "", text |-> <<>>, rows |-> rows]
SectionBreak == [kind |-> "sectionBreak", style |-> "", text |-> <<>>, rows |-> <<>>]

\* extract_paragraph_text: the text runs joined and stripped
extract_paragraph_text(el) ==
    IF el.kind # "paragraph" THEN <<>> ELSE strip(el.text)

\* the window of the backward walk for headings
HeadingWindow == 100

\* one pass of the body of the backward walk, at element c
heading_step(c, h) ==
    LET named == c.style
        record(txt) ==
            IF c.kind # "paragraph" \/ txt = <<>> THEN h
            ELSE IF named = "HEADING_3" /\ h.h3 = <<>> THEN [h EXCEPT !.h3 = txt]
            ELSE IF named = "HEADING_2" /\ h.h2 = <<>> THEN [h EXCEPT !.h2 = txt]
            ELSE IF named = "HEADING_1" /\ h.h1 = <<>> THEN [h EXCEPT !.h1 = txt]
            ELSE h
    IN  record(extract_paragraph_text(c))

\* The backward walk of choose_table_by_section for the table at position i
\* (1-based; the code's index is i - 1): j runs from i - 1 down to lo, and
\* the walk ends where the three levels are filled (the break). The walk over
\* j..lo is the walk over its nearer part followed by the walk over its
\* farther part.
RECURSIVE heading_walk(_, _, _, _)
heading_walk(content, j, lo, h) ==
    IF j < lo \/ (h.h1 # <<>> /\ h.h2 # <<>> /\ h.h3 # <<>>) THEN h
    ELSE IF j = lo THEN heading_step(content[j], h)
    ELSE LET mid == (j + lo + 1) \div 2
             farther(h2) == heading_walk(content, mid - 1, lo, h2)
         IN  farther(heading_walk(content, j, mid, h))

Max(a, b) == IF a >= b THEN a ELSE b
Min(a, b) == IF a <= b THEN a ELSE b

\* the candidate record of the table at position i
candidate(content, i) ==
    LET record(h) == [index |-> i, h1 |-> h.h1, h2 |-> h.h2, h3 |-> h.h3]
    IN  record(heading_walk(content, i - 1, Max(i - HeadingWindow, 0) + 1,
                            [h1 |-> <<>>, h2 |-> <<>>, h3 |-> <<>>]))

\* whether a candidate matches the target parts
candidate_matches(c, target_parts) ==
    LET parts == {p \in {normalize(c.h1), normalize(c.h2), normalize(c.h3)} : p # <<>>}
    IN  \E k \in DOMAIN target_parts : target_parts[k] \in parts

\* the matching candidates among the elements lo..hi, in document order
RECURSIVE matching_candidates(_, _, _, _)
matching_candidates(content, lo, hi, target_parts) ==
    IF lo > hi THEN <<>>
    ELSE IF lo = hi
    THEN LET keep(c) == IF candidate_matches(c, target_parts) THEN <<c>> ELSE <<>>
         IN  IF content[lo].kind = "table" THEN keep(candidate(content, lo)) ELSE <<>>
    ELSE LET mid == (lo + hi) \div 2
         IN  matching_candidates(content, lo, mid, target_parts)
             \o matching_candidates(content, mid + 1, hi, target_parts)

NotFound == [found |-> FALSE, index |-> 0, h1 |-> <<>>, h2 |-> <<>>, h3 |-> <<>>]

\* a locator that falls back to the first table of the document when
\* nothing matches
choose_with_fallback(content, section_name) ==
    LET tables == {i \in DOMAIN content : content[i].kind = "table"}
        first == CHOOSE i \in tables : \A k \in tables : i <= k
        result(ms) ==
            [ret |-> IF ms # <<>>
                     THEN [found |-> TRUE, index |-> ms[1].index,
                           h1 |-> ms[1].h1, h2 |-> ms[1].h2, h3 |-> ms[1].h3]
                     ELSE IF tables # {}
                     THEN [found |-> TRUE, index |-> first, h1 |-> candidate(content, first).h1,
                           h2 |-> candidate(content, first).h2,
                           h3 |-> candidate(content, first).h3]
                     ELSE NotFound,
             matches |-> ms,
             warned |-> IF Len(ms) > 1 THEN ms ELSE <<>>]
        search(target_parts) ==
            result(IF target_parts = <<>> THEN <<>>
                   ELSE matching_candidates(content, 1, Len(content), target_parts))
    IN  search(split_section_path(section_name))

\* a locator that returns the last of the matching tables
choose_last_match(content, section_name) ==
    LET result(ms) ==
            [ret |-> IF ms = <<>> THEN NotFound
                     ELSE [found |-> TRUE, index |-> ms[Len(ms)].index,
                           h1 |-> ms[Len(ms)].h1, h2 |-> ms[Len(ms)].h2,
                           h3 |-> ms[Len(ms)].h3],
             matches |-> ms,
             warned |-> IF Len(ms) > 1 THEN ms ELSE <<>>]
        search(target_parts) ==
            result(IF target_parts = <<>> THEN <<>>
                   ELSE matching_candidates(content, 1, Len(content), target_parts))
    IN  search(split_section_path(section_name))

\* choose_table_by_section: what it returns, its `matches`, what it prints
choose_table_by_section(content, section_name) ==
    LET result(ms) ==
            [ret |-> IF ms = <<>> THEN NotFound
                     ELSE [found |-> TRUE, index |-> ms[1].index,
                           h1 |-> ms[1].h1, h2 |-> ms[1].h2, h3 |-> ms[1].h3],
             matches |-> ms,
             warned |-> IF Len(ms) > 1 THEN ms ELSE <<>>]
        search(target_parts) ==
            result(IF target_parts = <<>> THEN <<>>
                   ELSE matching_candidates(content, 1, Len(content), target_parts))
    IN  search(split_section_path(section_name))

----------------------------------------------------------------------------
(* Character offsets. A snapshot is the body as fetched; every element,    *)
(* row, cell and cell paragraph has a start offset into one character      *)
(* stream: a paragraph takes its text and a newline, a table one character *)
(* for itself, one for each row and one for each cell besides the cells'   *)
(* paragraphs. Rows and columns are counted from 1 here, from 0 in the     *)
(* code and in requests.                                                   *)

CellSize(text) == Len(text) + 2

RECURSIVE SumCells(_)
SumCells(row) == IF row = <<>> THEN 0 ELSE CellSize(Head(row)) + SumCells(Tail(row))

RowSize(row) == 1 + SumCells(row)

RECURSIVE SumRows(_)
SumRows(rows) == IF rows = <<>> THEN 0 ELSE RowSize(Head(rows)) + SumRows(Tail(rows))

ElemSize(e) ==
    CASE e.kind = "paragraph" -> Len(e.text) + 1
      [] e.kind = "table" -> 1 + SumRows(e.rows)
      [] OTHER -> 1

RECURSIVE SumElems(_)
SumElems(d) == IF d = <<>> THEN 0 ELSE ElemSize(Head(d)) + SumElems(Tail(d))

StartOf(d, i) == SumElems(SubSeq(d, 1, i - 1))
RowStart(d, i, r) == StartOf(d, i) + 1 + SumRows(SubSeq(d[i].rows, 1, r - 1))
CellStart(d, i, r, c) == RowStart(d, i, r) + 1 + SumCells(SubSeq(d[i].rows[r], 1, c - 1))
CellParaStart(d, i, r, c) == CellStart(d, i, r, c) + 1
CellParaEnd(d, i, r, c) == CellStart(d, i, r, c) + CellSize(d[i].rows[r][c])

\* what a snapshot tells of a cell: its own start and its first paragraph's
\* start and end
CellView(d, i, r, c) ==
    [has_para |-> TRUE, start_i |-> CellParaStart(d, i, r, c),
     end_i |-> CellParaEnd(d, i, r, c), cell_start |-> CellStart(d, i, r, c)]

----------------------------------------------------------------------------
(* The remote document API: batchUpdate applies the requests of a batch in *)
(* order and is atomic; a request that names no table, row or paragraph of *)
(* the document as it then is makes it reject the whole batch.             *)

DeleteTableRow(start, rowIndex) ==
    [op |-> "deleteTableRow", index |-> start, rowIndex |-> rowIndex, text |-> <<>>]
InsertTableRow(start, rowIndex) ==
    [op |-> "insertTableRow", index |-> start, rowIndex |-> rowIndex, text |-> <<>>]
InsertText(index, text) ==
    [op |-> "insertText", index |-> index, rowIndex |-> 0, text |-> text]

Rejected(d) == [ok |-> FALSE, doc |-> d]

RemoveAt(seq, k) == SubSeq(seq, 1, k - 1) \o SubSeq(seq, k + 1, Len(seq))
InsertAfter(seq, k, x) == SubSeq(seq, 1, k) \o <<x>> \o SubSeq(seq, k + 1, Len(seq))

\* the position of the table that starts at offset index; 0 if there is none
table_at(d, index) ==
    LET I == {i \in DOMAIN d : d[i].kind = "table" /\ StartOf(d, i) = index}
    IN  IF I = {} THEN 0 ELSE CHOOSE i \in I : TRUE

apply_delete_row(d, req) ==
    LET delete(i, r) ==
            IF i = 0 THEN Rejected(d)
            ELSE IF r < 1 \/ r > Len(d[i].rows) THEN Rejected(d)
            ELSE IF Len(d[i].rows) = 1 THEN [ok |-> TRUE, doc |-> RemoveAt(d, i)]
            ELSE [ok |-> TRUE, doc |-> [d EXCEPT ![i].rows = RemoveAt(@, r)]]
    IN  delete(table_at(d, req.index), req.rowIndex + 1)

apply_insert_row(d, req) ==
    LET insert(i, r) ==
            IF i = 0 THEN Rejected(d)
            ELSE IF r < 1 \/ r > Len(d[i].rows) THEN Rejected(d)
            ELSE [ok |-> TRUE,
                  doc |-> [d EXCEPT ![i].rows =
                             InsertAfter(@, r, [c \in DOMAIN d[i].rows[r] |-> <<>>])]]
    IN  insert(table_at(d, req.index), req.rowIndex + 1)

InsertInto(text, k, t) == SubSeq(text, 1, k) \o t \o SubSeq(text, k + 1, Len(text))

\* the position of the paragraph that holds offset index; 0 if there is none
para_at(d, index) ==
    LET P == {i \in DOMAIN d : /\ d[i].kind = "paragraph"
                               /\ StartOf(d, i) <= index
                               /\ index <= StartOf(d, i) + Len(d[i].text)}
    IN  IF P = {} THEN 0 ELSE CHOOSE i \in P : TRUE

\* the cells of row r of table i as <<i, r, c, start of the cell's paragraph>>
RECURSIVE row_cells(_, _, _, _, _)
row_cells(row, i, r, c, at) ==
    IF c > Len(row) THEN {}
    ELSE {<<i, r, c, at + 1>>} \cup row_cells(row, i, r, c + 1, at + CellSize(row[c]))

RECURSIVE table_cells(_, _, _, _)
table_cells(rows, i, r, at) ==
    IF r > Len(rows) THEN {}
    ELSE row_cells(rows[r], i, r, 1, at + 1)
         \cup table_cells(rows, i, r + 1, at + RowSize(rows[r]))

\* the cell whose paragraph holds offset index, as <<i, r, c, start>>; <<>> if none
cell_at(d, index) ==
    LET C == {x \in UNION {table_cells(d[i].rows, i, 1, StartOf(d, i) + 1) :
                            i \in {j \in DOMAIN d : d[j].kind = "table"}} :
                x[4] <= index /\ index <= x[4] + Len(d[x[1]].rows[x[2]][x[3]])}
    IN  IF C = {} THEN <<>> ELSE CHOOSE x \in C : TRUE

apply_insert_text(d, req) ==
    LET in_cell(x) ==
            IF x = <<>> THEN Rejected(d)
            ELSE [ok |-> TRUE,
                  doc |-> [d EXCEPT ![x[1]].rows[x[2]][x[3]] =
                             InsertInto(@, req.index - x[4], req.text)]]
        in_para(i) ==
            IF i = 0 THEN in_cell(cell_at(d, req.index))
            ELSE [ok |-> TRUE,
                  doc |-> [d EXCEPT ![i].text = InsertInto(@, req.index - StartOf(d, i), req.text)]]
    IN  in_para(para_at(d, req.index))

apply_request(d, req) ==
    CASE req.op = "deleteTableRow" -> apply_delete_row(d, req)
      [] req.op = "insertTableRow" -> apply_insert_row(d, req)
      [] req.op = "insertText" -> apply_insert_text(d, req)

\* the requests of a batch applied one after the other, the first one that
\* is refused ending the batch (the sequence is walked by halves)
RECURSIVE apply_requests(_, _)
apply_requests(d, reqs) ==
    IF reqs = <<>> THEN [ok |-> TRUE, doc |-> d]
    ELSE IF Len(reqs) = 1 THEN apply_request(d, reqs[1])
    ELSE LET go_on(first) ==
                 IF first.ok
                 THEN apply_requests(first.doc, SubSeq(reqs, (Len(reqs) \div 2) + 1, Len(reqs)))
                 ELSE first
         IN  go_on(apply_requests(d, SubSeq(reqs, 1, Len(reqs) \div 2)))

\* documents().batchUpdate: the document after the batch, or as it was
batchUpdate(d, reqs) ==
    LET result(done) == IF done.ok THEN done ELSE Rejected(d)
    IN  result(apply_requests(d, reqs))

\* The rows (counted from 0) that the insertTableRow requests of a batch
\* create, in the order of the requests, as they stand after the batch.
RECURSIVE created_rows(_, _)
created_rows(reqs, acc) ==
    IF reqs = <<>> THEN acc
    ELSE LET at == Head(reqs).rowIndex + 1
         IN  created_rows(Tail(reqs),
                          Append([k \in DOMAIN acc |-> IF acc[k] >= at THEN acc[k] + 1 ELSE acc[k]],
                                 at))

----------------------------------------------------------------------------
(* clear_table_body and append_rows_and_fill_docs: the requests they build *)
(* from a snapshot.                                                        *)

\* clear_table_body's default max_attempts
max_attempts == 200

\* the size of a chunk of insertText requests
ChunkSize == 50

\* a request that deletes the header row
delete_header_request(start) == DeleteTableRow(start, 0)

\* clear_table_body: the request that deletes the first data row
delete_request(start) == DeleteTableRow(start, 1)

\* a clear that allows one failed delete more
gives_up_late(n) == n > max_attempts

\* clear_table_body gives up when its failed deletes reach max_attempts
clear_gives_up(n) == n >= max_attempts

\* a rebuild that goes on whatever the clear returned
proceeds_anyway(clear_ok) == TRUE

\* rebuild_table_from_batch goes on to the insert only if the clear returned True
rebuild_proceeds(clear_ok) == clear_ok

\* insertTableRow requests that count the rows from 1
insert_below_count(start, current_row_count, num_to_add) ==
    [k \in 1..num_to_add |-> InsertTableRow(start, current_row_count + (k - 1))]

\* append_rows_and_fill_docs: one insertTableRow below row base_row_index + i
insert_row_requests(start, current_row_count, num_to_add) ==
    LET base_row_index == Max(current_row_count - 1, 0)
    IN  [k \in 1..num_to_add |-> InsertTableRow(start, base_row_index + (k - 1))]

\* a fill that starts one row late
start_fill_late(new_row_count, num_to_add) == new_row_count - num_to_add + 1

\* the first row of the fill
start_fill(new_row_count, num_to_add) == new_row_count - num_to_add

\* an insertion offset read from the first paragraph only
index_without_fallback(cell) ==
    IF ~cell.has_para THEN None
    ELSE IF cell.end_i # None /\ cell.start_i # None /\ cell.end_i > cell.start_i
         THEN cell.end_i - 1
    ELSE IF cell.start_i # None THEN cell.start_i + 1
    ELSE None

\* the insertion offset of a cell: the end of its first paragraph minus one,
\* else that paragraph's start plus one, else the cell's start plus one,
\* else None
cell_insert_index(cell) ==
    LET or_cell_start(from_para) ==
            IF from_para # None THEN from_para
            ELSE IF cell.cell_start # None THEN cell.cell_start + 1
            ELSE None
    IN  or_cell_start(IF ~cell.has_para THEN None
                      ELSE IF cell.end_i # None /\ cell.start_i # None
                              /\ cell.end_i > cell.start_i
                           THEN cell.end_i - 1
                      ELSE IF cell.start_i # None THEN cell.start_i + 1
                      ELSE None)

\* tbl["tableRows"][r_idx] as Python indexes a list: the position (from 1)
\* of the row, a negative index counting from the end; 0 where it raises
\* IndexError
py_index(n, r_idx) ==
    IF r_idx >= 0 THEN (IF r_idx < n THEN r_idx + 1 ELSE 0)
    ELSE (IF 0 - r_idx <= n THEN n + r_idx + 1 ELSE 0)

\* the insertText request of one cell: none where the cell has no
\* insertion offset (the cell is skipped) or the text is empty
cell_request(cell, text_to_insert) ==
    LET request(insert_index) ==
            IF insert_index = None \/ text_to_insert = <<>> THEN <<>>
            ELSE <<InsertText(insert_index, text_to_insert)>>
    IN  request(cell_insert_index(cell))

\* the insertText requests of row r_idx, cell by cell
RECURSIVE fill_cells(_, _, _, _, _)
fill_cells(d, i, r, texts, c) ==
    IF c > Min(Len(d[i].rows[r]), Len(texts)) THEN <<>>
    ELSE cell_request(CellView(d, i, r, c), texts[c]) \o fill_cells(d, i, r, texts, c + 1)

\* the loop over the cells of one row, on the cells as a snapshot gives them
RECURSIVE row_requests(_, _, _)
row_requests(row_cells_seen, texts, c) ==
    IF c > Min(Len(row_cells_seen), Len(texts)) THEN <<>>
    ELSE cell_request(row_cells_seen[c], texts[c]) \o row_requests(row_cells_seen, texts, c + 1)

\* the insertText requests of the rows r_idx .. new_row_count - 1, in the
\* order of the loops; ok is FALSE where indexing the rows or rows_data raises
RECURSIVE fill_rows(_, _, _, _, _)
fill_rows(d, i, rows, first, r_idx) ==
    IF r_idx >= Len(d[i].rows) THEN [ok |-> TRUE, reqs |-> <<>>]
    ELSE LET with_rest(r, rest) ==
                 [ok |-> rest.ok,
                  reqs |-> fill_cells(d, i, r, rows[r_idx - first + 1], 1) \o rest.reqs]
             row(r) ==
                 IF r = 0 \/ r_idx - first >= Len(rows) THEN [ok |-> FALSE, reqs |-> <<>>]
                 ELSE with_rest(r, fill_rows(d, i, rows, first, r_idx + 1))
         IN  row(py_index(Len(d[i].rows), r_idx))

\* the unsorted insertText requests of the fill, from the snapshot d whose
\* located table is element i
fill_requests(d, i, rows) ==
    LET first == start_fill(Len(d[i].rows), Len(rows))
    IN  fill_rows(d, i, rows, first, first)

\* the requests left in the order the loops built them
left_unsorted(reqs) == reqs

\* insert_requests.sort(key=index, reverse=True): by descending offset,
\* requests of one offset staying in the order they had (the sort is stable)
sort_insert_requests(reqs) ==
    LET place == [k \in DOMAIN reqs |->
                    Cardinality({j \in DOMAIN reqs :
                                   \/ reqs[j].index > reqs[k].index
                                   \/ reqs[j].index = reqs[k].index /\ j <= k})]
    IN  [p \in DOMAIN reqs |-> reqs[CHOOSE k \in DOMAIN reqs : place[k] = p]]

\* a chunk that takes one request more
chunk_one_more(reqs, at) == SubSeq(reqs, at + 1, Min(at + ChunkSize + 1, Len(reqs)))

\* insert_requests[i : i + 50]
chunk_of(reqs, at) == SubSeq(reqs, at + 1, Min(at + ChunkSize, Len(reqs)))

----------------------------------------------------------------------------
(* The inputs of the runs: row sources, stores and documents.              *)

Row(time_text, problem, result, problem_url, compiler) ==
    [time_text |-> time_text, problem |-> problem, result |-> result,
     problem_url |-> problem_url, compiler |-> compiler]

TimeA == <<"2","0","2","5","-","0","1","-","0","2"," ","0","3",":","0","4",":","0","5">>
TimeB == <<"0","1","/","0","2","/","2","0","2","5"," ","0","3",":","0","4",":","0","5">>

RowA1 == Row(TimeA, <<"p">>, <<"A","C">>, <<"/","q","/","J","1">>, <<"J","a","v","a">>)
RowA2 == Row(TimeB, <<"q">>, <<"A","C">>, <<"/","q","/","J","1","/">>, <<"j","a","v","a">>)
RowB == Row(<<"4", "-", "1", "-", "2", "0", "2", "5">>, <<"r">>, <<" ","A","C">>,
            <<"/","J","2">>, <<"J","A","V","A"," ">>)
RowWA == Row(TimeA, <<"w">>, <<"W","A">>, <<"/","J","2">>, <<"j","a","v","a">>)
RowCpp == Row(TimeA, <<"c">>, <<"A","C">>, <<"/","J","2">>, <<"c","p","p">>)
RowNoUrl == Row(TimeA, <<"n">>, <<"A","C">>, <<>>, <<"j","a","v","a">>)
RowUnknown == Row(TimeA, <<"u">>, <<"A","C">>, <<"/","J","7">>, <<"j","a","v","a">>)
RowK == Row(TimeA, <<"k">>, <<"A","C">>, <<"/","J","3">>, <<"j","a","v","a">>)

\* the row sources: the pages of a run, each the rows parse_rows returns
Sources ==
    { << <<RowA1, RowWA, RowA2>> >>,
      << <<RowB, RowCpp>>, <<RowA2>> >>,
      << <<RowA1, RowUnknown>> >>,
      << <<RowK>> >>,
      << <<RowNoUrl, RowWA>> >> }

Entry0 == [date |-> <<"n", "/", "a">>, topic |-> <<"T">>,
           number |-> <<"1","0">>, problem |-> <<"r","0">>, result |-> <<"A","C">>]

\* a store of n entries as earlier runs left it, numbers 21, 22, ...
StoredEntry(k) ==
    [date |-> Pad2((k % 3) + 1) \o <<"-","0","1","-","2","0","2","5">>, topic |-> <<"T">>,
     number |-> Pad2(20 + k), problem |-> <<"s">>, result |-> <<"A","C">>]
StoredPairs(n) == [k \in 1..n |-> [key |-> StoredEntry(k).number, entry |-> StoredEntry(k)]]

\* entries enough for more than one chunk of text insertions
ManyEntries == 11

\* BATCH_FILE before the first run: absent, as an earlier run wrote it,
\* empty, or holding a JSON array
Files0 ==
    { MissingFile, json_dump(<< [key |-> Entry0.number, entry |-> Entry0] >>),
      EmptyFile, NonObjectFile(<< [key |-> Entry0.number, entry |-> Entry0] >>) }

Cfgs == { [dry_run |-> FALSE, enable_docs |-> TRUE],
          [dry_run |-> TRUE, enable_docs |-> TRUE],
          [dry_run |-> FALSE, enable_docs |-> FALSE] }

\* DOC_SECTION
DocSection == <<"S", " ", ">", " ", "b", " ", "t">>

HeaderRow == <<<<"D">>, <<"T">>, <<"N">>, <<"P">>, <<"R">>>>
OldRow1 == << <<"x">>, <<>>, <<"9">>, <<"o", "l", "d">>, <<"A","C">> >>
OldRow2 == << <<>>, <<>>, <<>>, <<>>, <<>> >>

\* the documents before the first run: the target table with old and empty
\* data rows; a six-column target table behind another table; no target
MainDocs ==
    { <<SectionBreak, Para("HEADING_1", <<"S">>), Para("HEADING_2", <<"b", " ", "t">>),
        Table(<<HeaderRow, OldRow1, OldRow2>>), Para("NORMAL_TEXT", <<"e">>)>>,
      <<SectionBreak, Para("HEADING_1", <<"q">>), Table(<<HeaderRow, OldRow1>>),
        Para("HEADING_2", <<"B", "-", "T">>),
        Table(<<HeaderRow \o << <<"U">> >>, OldRow1 \o << <<"u">> >> >>),
        Para("NORMAL_TEXT", <<"e">>)>>,
      <<SectionBreak, Para("HEADING_1", <<"z">>), Table(<<HeaderRow>>)>> }

----------------------------------------------------------------------------
(* sync, step by step: one action for each external call it makes.         *)

NoReq == [sent |-> FALSE, req |-> DeleteTableRow(0, 0), fresh |-> FALSE, ok |-> FALSE,
          table_start |-> None, before |-> <<>>, after |-> <<>>]
NoClearStart == [set |-> FALSE, rows |-> <<>>]
NoPrev == [outcome |-> "none", saved |-> FALSE, source |-> <<>>, file |-> MissingFile,
           doc |-> <<>>]

\* An external call may fail: during an outage, or as one of a bounded
\* number of single failures.
CanFail == outage \/ failures < MaxFailures
CallFails == outage' = outage /\ failures' = (IF outage THEN failures ELSE failures + 1)

Init ==
    /\ pc = "idle"
    /\ runs = 0
    /\ outcome = "none"
    /\ cfg \in Cfgs
    /\ section = DocSection
    /\ source = <<>>
    /\ page = 1
    /\ batch = <<>>
    /\ file \in Files0
    /\ doc \in MainDocs
    /\ snap = <<>>
    /\ located = NotFound
    /\ matches = <<>>
    /\ diag = <<>>
    /\ row_count = 0
    /\ start_index = None
    /\ attempts = 0
    /\ rows_data = <<>>
    /\ insert_requests = <<>>
    /\ chunk_at = 0
    /\ failures = 0
    /\ outage = FALSE
    /\ lineage = <<>>
    /\ committed = (IF file.kind = "object" THEN file.pairs ELSE <<>>)
    /\ saved = FALSE
    /\ prev_run = NoPrev
    /\ snap_fresh = FALSE
    /\ last_req = NoReq
    /\ insert_sent = FALSE
    /\ clear_ret = "none"
    /\ clear_start = NoClearStart
    /\ created = <<>>
    /\ sent_inserts = <<>>
    /\ database = <<>> /\ item_at = 1 /\ total = 0 /\ existing = <<>>
    /\ cells = <<>>

\* the run ends: o is rebuilt, dry, nodocs, failed (die) or crashed (an
\* exception nothing catches)
Finish(o) == pc' = "done" /\ outcome' = o

\* sync starts: load_batch, then the pages
StartRun ==
    /\ pc \in {"idle", "done"}
    /\ runs < MaxRuns
    /\ runs' = runs + 1
    /\ source' \in Sources
    /\ batch' = load_batch(file)
    /\ page' = 1
    /\ pc' = "fetch"
    /\ outcome' = "running"
    /\ snap' = <<>>
    /\ located' = NotFound /\ matches' = <<>> /\ diag' = <<>>
    /\ row_count' = 0 /\ start_index' = None /\ rows_data' = <<>>
    /\ insert_requests' = <<>> /\ chunk_at' = 0
    /\ attempts' = 0
    /\ lineage' = [i \in DOMAIN committed |-> committed[i].entry]
    /\ saved' = FALSE
    /\ prev_run' = [outcome |-> outcome, saved |-> saved, source |-> source,
                    file |-> file, doc |-> doc]
    /\ snap_fresh' = FALSE /\ last_req' = NoReq /\ insert_sent' = FALSE
    /\ clear_ret' = "none" /\ clear_start' = NoClearStart /\ created' = <<>>
    /\ sent_inserts' = <<>>
    /\ UNCHANGED <<cfgv, notionv, cells, file, doc, envv, committed>>

\* the accepted entries among rows, up to the row where make_batch_entry raises
RECURSIVE accepted_of(_)
accepted_of(rows) ==
    IF rows = <<>> THEN <<>>
    ELSE LET rest(made) ==
                 IF made.kind = "raise" THEN <<>>
                 ELSE (IF made.kind = "entry" THEN <<made.entry>> ELSE <<>>)
                      \o accepted_of(Tail(rows))
         IN  rest(make_batch_entry(Head(rows)))

\* one page fetched, parsed, classified and merged
FetchPage ==
    /\ pc = "fetch"
    /\ LET merge(merged) ==
               /\ batch' = merged.store
               /\ IF merged.raised THEN Finish("crashed") /\ page' = page
                  ELSE IF page = Len(source)
                       THEN pc' = "persist" /\ page' = page /\ outcome' = outcome
                  ELSE pc' = "fetch" /\ page' = page + 1 /\ outcome' = outcome
       IN  merge(merge_rows(batch, source[page]))
    /\ lineage' = lineage \o accepted_of(source[page])
    /\ UNCHANGED <<runs, cfgv, notionv, cells, source, file, doc, snap, locv, attempts, appendv, envv,
                   committed, saved, prev_run, rebuildh>>

\* fetch_page raises: nothing in sync catches it
FetchPageFails ==
    /\ pc = "fetch"
    /\ CanFail /\ CallFails
    /\ Finish("crashed")
    /\ UNCHANGED <<runs, cfgv, notionv, cells, source, page, batch, file, doc, snap, locv, attempts, appendv,
                   storeh, rebuildh>>

\* a save after which the rebuild follows in dry-run mode too
PersistThenRebuild ==
    /\ pc = "persist"
    /\ \E how \in {"ok", "open_failed", "write_failed"} :
          /\ IF how = "ok" THEN UNCHANGED envv ELSE CanFail /\ CallFails
          /\ file' = save_batch(file, batch, how)
          /\ saved' = (how = "ok")
          /\ committed' = CASE how = "ok" -> batch
                            [] how = "open_failed" -> committed
                            [] how = "write_failed" -> <<>>
    /\ IF cfg.enable_docs THEN pc' = "clear_get" /\ outcome' = outcome
       ELSE Finish("nodocs")
    /\ UNCHANGED <<runs, cfgv, notionv, cells, source, page, batch, doc, snap, locv, attempts, appendv,
                   lineage, prev_run, rebuildh>>

\* save_batch, in dry-run mode and otherwise, and what follows it
Persist ==
    /\ pc = "persist"
    /\ \E how \in {"ok", "open_failed", "write_failed"} :
          /\ IF how = "ok" THEN UNCHANGED envv ELSE CanFail /\ CallFails
          /\ file' = save_batch(file, batch, how)
          /\ saved' = (how = "ok")
          /\ committed' = CASE how = "ok" -> batch
                            [] how = "open_failed" -> committed
                            [] how = "write_failed" -> <<>>
    /\ IF cfg.dry_run THEN Finish("dry")
       ELSE IF cfg.enable_docs THEN pc' = "clear_get" /\ outcome' = outcome
       ELSE Finish("nodocs")
    /\ UNCHANGED <<runs, cfgv, notionv, cells, source, page, batch, doc, snap, locv, attempts, appendv,
                   lineage, prev_run, rebuildh>>

\* documents().get: the body as it is
documents_get(d) == d

\* the rows of the table choose_table_by_section returned, in the body d
table_rows(d, ret) ==
    IF ret.found /\ ret.index \in DOMAIN d /\ d[ret.index].kind = "table"
    THEN d[ret.index].rows ELSE <<>>

\* what choose_table_by_section returned, kept
Located(r) == located' = r.ret /\ matches' = r.matches /\ diag' = r.warned

\* clear_table_body returns clear_ok to rebuild_table_from_batch, which
\* returns False to sync (die), or sorts the items and goes on
ClearReturns(clear_ok, n) ==
    LET go_on(sorted) ==
            IF ~sorted.ok THEN Finish("crashed") /\ rows_data' = rows_data
            ELSE pc' = "rebuild_get" /\ outcome' = outcome /\ rows_data' = sorted.rows
    IN  /\ clear_ret' = (IF clear_ok THEN "true" ELSE "false")
        /\ attempts' = (IF clear_ok THEN 0 ELSE n)
        /\ IF ~rebuild_proceeds(clear_ok) THEN Finish("failed") /\ rows_data' = rows_data
           ELSE go_on(rows_of_batch(batch))

\* clear_table_body: the head of its loop, documents().get answering with
\* the body `fetched`
ClearGetFrom(fetched, fresh) ==
    /\ pc = "clear_get"
    /\ snap' = fetched
    /\ snap_fresh' = fresh
    /\ LET look(ret, rows) ==
               /\ clear_start' = IF ret.found /\ ~clear_start.set
                                 THEN [set |-> TRUE, rows |-> rows] ELSE clear_start
               /\ IF ~ret.found THEN ClearReturns(FALSE, attempts) /\ start_index' = start_index
                  ELSE IF Len(rows) <= 1
                       THEN ClearReturns(TRUE, attempts) /\ start_index' = start_index
                  ELSE /\ pc' = "clear_delete" /\ outcome' = outcome
                       /\ start_index' = StartOf(fetched, ret.index)
                       /\ clear_ret' = clear_ret /\ rows_data' = rows_data
                       /\ attempts' = attempts
           locate(r) == Located(r) /\ look(r.ret, table_rows(fetched, r.ret))
       IN  locate(choose_table_by_section(fetched, section))
    /\ UNCHANGED <<runs, cfgv, notionv, cells, source, page, batch, file, doc, row_count, insert_requests,
                   chunk_at, envv, storeh, last_req, insert_sent, created, sent_inserts>>

\* the head of the loop of clear_table_body, the document read as it is
ClearGet == ClearGetFrom(documents_get(doc), TRUE)

\* documents().get raises in clear_table_body: nothing catches it
ClearGetFails ==
    /\ pc = "clear_get"
    /\ CanFail /\ CallFails
    /\ Finish("crashed")
    /\ UNCHANGED <<runs, cfgv, notionv, cells, source, page, batch, file, doc, snap, locv, attempts, appendv,
                   storeh, rebuildh>>

\* the except clause of clear_table_body
DeleteFailed ==
    IF clear_gives_up(attempts + 1) THEN ClearReturns(FALSE, attempts + 1)
    ELSE /\ pc' = "clear_get" /\ outcome' = outcome /\ attempts' = attempts + 1
         /\ clear_ret' = clear_ret /\ rows_data' = rows_data

\* history: a delete request sent, and what it did
Sent(req, res) ==
    last_req' = [sent |-> TRUE, req |-> req, fresh |-> snap_fresh, ok |-> res.ok,
                 table_start |-> IF located.found THEN StartOf(doc, located.index) ELSE None,
                 before |-> table_rows(doc, located), after |-> table_rows(res.doc, located)]

\* clear_table_body: the delete request reaches the document
ClearDelete ==
    /\ pc = "clear_delete"
    /\ LET done(req, res) ==
               /\ doc' = res.doc
               /\ Sent(req, res)
               /\ snap_fresh' = FALSE
               /\ IF res.ok
                  THEN /\ pc' = "clear_get" /\ outcome' = outcome /\ attempts' = attempts
                       /\ clear_ret' = clear_ret /\ rows_data' = rows_data
                  ELSE DeleteFailed
           send(req) == done(req, batchUpdate(doc, <<req>>))
       IN  send(delete_request(start_index))
    /\ UNCHANGED <<runs, cfgv, notionv, cells, source, page, batch, file, snap, locv, row_count, start_index,
                   insert_requests, chunk_at, envv, storeh, insert_sent, clear_start, created,
                   sent_inserts>>

\* clear_table_body: the delete request fails on its way
ClearDeleteFails ==
    /\ pc = "clear_delete"
    /\ CanFail /\ CallFails
    /\ Sent(delete_request(start_index), Rejected(doc))
    /\ DeleteFailed
    /\ snap_fresh' = FALSE
    /\ UNCHANGED <<runs, cfgv, notionv, cells, source, page, batch, file, doc, snap, locv, row_count,
                   start_index, insert_requests, chunk_at, storeh, insert_sent, clear_start,
                   created, sent_inserts>>

\* rebuild_table_from_batch: the table fetched again after the clear, and
\* the head of append_rows_and_fill_docs
RebuildGet ==
    /\ pc = "rebuild_get"
    /\ snap' = documents_get(doc)
    /\ snap_fresh' = TRUE
    /\ LET locate(fetched, r) ==
               /\ Located(r)
               /\ IF ~r.ret.found
                  THEN Finish("failed") /\ row_count' = row_count /\ start_index' = start_index
                  ELSE /\ row_count' = Len(table_rows(fetched, r.ret))
                       /\ start_index' = StartOf(fetched, r.ret.index)
                       /\ IF Len(rows_data) = 0 THEN Finish("rebuilt")
                          ELSE pc' = "append_refresh" /\ outcome' = outcome
       IN  locate(documents_get(doc), choose_table_by_section(documents_get(doc), section))
    /\ UNCHANGED <<runs, cfgv, notionv, cells, source, page, batch, file, doc, attempts, rows_data,
                   insert_requests, chunk_at, envv, storeh, last_req, insert_sent, clear_ret,
                   clear_start, created, sent_inserts>>

RebuildGetFails ==
    /\ pc = "rebuild_get"
    /\ CanFail /\ CallFails
    /\ Finish("crashed")
    /\ UNCHANGED <<runs, cfgv, notionv, cells, source, page, batch, file, doc, snap, locv, attempts, appendv,
                   storeh, rebuildh>>

\* after the refresh: a table of no rows cannot be appended to
CheckRowCount(n) ==
    IF n = 0 THEN Finish("failed") ELSE pc' = "insert_rows" /\ outcome' = outcome

\* append_rows_and_fill_docs: the refresh before the insert
AppendRefresh ==
    /\ pc = "append_refresh"
    /\ snap' = documents_get(doc)
    /\ snap_fresh' = TRUE
    /\ LET refreshed(n) == row_count' = n /\ CheckRowCount(n)
           locate(fetched, r) ==
               /\ Located(r)
               /\ start_index' = IF r.ret.found THEN StartOf(fetched, r.ret.index)
                                 ELSE start_index
               /\ refreshed(IF r.ret.found THEN Len(table_rows(fetched, r.ret)) ELSE row_count)
       IN  locate(documents_get(doc), choose_table_by_section(documents_get(doc), section))
    /\ UNCHANGED <<runs, cfgv, notionv, cells, source, page, batch, file, doc, attempts, rows_data,
                   insert_requests, chunk_at, envv, storeh, last_req, insert_sent, clear_ret,
                   clear_start, created, sent_inserts>>

\* the refresh raises: its except clause keeps the table passed in
AppendRefreshFails ==
    /\ pc = "append_refresh"
    /\ CanFail /\ CallFails
    /\ CheckRowCount(row_count)
    /\ UNCHANGED <<runs, cfgv, notionv, cells, source, page, batch, file, doc, snap, locv, attempts, appendv,
                   storeh, rebuildh>>

\* append_rows_and_fill_docs: the batch of insertTableRow requests
InsertRows ==
    /\ pc = "insert_rows"
    /\ insert_sent' = TRUE
    /\ LET done(reqs, res) ==
               /\ doc' = res.doc
               /\ snap_fresh' = FALSE
               /\ created' = IF res.ok THEN created_rows(reqs, <<>>) ELSE created
               /\ IF res.ok THEN pc' = "fill_get" /\ outcome' = outcome ELSE Finish("crashed")
           send(reqs) == done(reqs, batchUpdate(doc, reqs))
       IN  send(insert_row_requests(start_index, row_count, Len(rows_data)))
    /\ UNCHANGED <<runs, cfgv, notionv, cells, source, page, batch, file, snap, locv, attempts, appendv, envv,
                   storeh, last_req, clear_ret, clear_start, sent_inserts>>

InsertRowsFails ==
    /\ pc = "insert_rows"
    /\ CanFail /\ CallFails
    /\ insert_sent' = TRUE
    /\ snap_fresh' = FALSE
    /\ Finish("crashed")
    /\ UNCHANGED <<runs, cfgv, notionv, cells, source, page, batch, file, doc, snap, locv, attempts, appendv,
                   storeh, last_req, clear_ret, clear_start, created, sent_inserts>>

\* append_rows_and_fill_docs: the table fetched after the insert and the
\* insertText requests built from it, sorted
FillGetFrom(fetched, fresh) ==
    /\ pc = "fill_get"
    /\ snap' = fetched
    /\ snap_fresh' = fresh
    /\ LET fill(built) ==
               IF ~built.ok
               THEN /\ Finish("crashed")
                    /\ insert_requests' = insert_requests /\ chunk_at' = chunk_at
               ELSE /\ insert_requests' = sort_insert_requests(built.reqs)
                    /\ chunk_at' = 0
                    /\ IF built.reqs = <<>> THEN Finish("rebuilt")
                       ELSE pc' = "fill_chunk" /\ outcome' = outcome
           locate(r) ==
               /\ Located(r)
               /\ IF ~r.ret.found
                  THEN /\ Finish("failed")
                       /\ insert_requests' = insert_requests /\ chunk_at' = chunk_at
                  ELSE fill(fill_requests(fetched, r.ret.index, rows_data))
       IN  locate(choose_table_by_section(fetched, section))
    /\ UNCHANGED <<runs, cfgv, notionv, cells, source, page, batch, file, doc, attempts, row_count, start_index,
                   rows_data, envv, storeh, last_req, insert_sent, clear_ret, clear_start,
                   created, sent_inserts>>

\* the fetch after the insert, the document read as it is
FillGet == FillGetFrom(documents_get(doc), TRUE)

FillGetFails ==
    /\ pc = "fill_get"
    /\ CanFail /\ CallFails
    /\ Finish("crashed")
    /\ UNCHANGED <<runs, cfgv, notionv, cells, source, page, batch, file, doc, snap, locv, attempts, appendv,
                   storeh, rebuildh>>

\* append_rows_and_fill_docs: one chunk of insertText requests
FillChunk ==
    /\ pc = "fill_chunk"
    /\ chunk_at' = chunk_at + ChunkSize
    /\ LET done(res) ==
               /\ doc' = res.doc
               /\ snap_fresh' = FALSE
               /\ IF ~res.ok THEN Finish("crashed")
                  ELSE IF chunk_at + ChunkSize >= Len(insert_requests) THEN Finish("rebuilt")
                  ELSE pc' = "fill_chunk" /\ outcome' = outcome
           send(chunk) == sent_inserts' = sent_inserts \o chunk /\ done(batchUpdate(doc, chunk))
       IN  send(chunk_of(insert_requests, chunk_at))
    /\ UNCHANGED <<runs, cfgv, notionv, cells, source, page, batch, file, snap, locv, attempts, row_count,
                   start_index, rows_data, insert_requests, envv, storeh, last_req, insert_sent,
                   clear_ret, clear_start, created>>

FillChunkFails ==
    /\ pc = "fill_chunk"
    /\ CanFail /\ CallFails
    /\ sent_inserts' = sent_inserts \o chunk_of(insert_requests, chunk_at)
    /\ snap_fresh' = FALSE
    /\ Finish("crashed")
    /\ UNCHANGED <<runs, cfgv, notionv, cells, source, page, batch, file, doc, snap, locv, attempts, appendv,
                   storeh, last_req, insert_sent, clear_ret, clear_start, created>>

Next ==
    \/ StartRun
    \/ FetchPage
    \/ FetchPageFails
    \/ Persist
    \/ ClearGet
    \/ ClearGetFails
    \/ ClearDelete
    \/ ClearDeleteFails
    \/ RebuildGet
    \/ RebuildGetFails
    \/ AppendRefresh
    \/ AppendRefreshFails
    \/ InsertRows
    \/ InsertRowsFails
    \/ FillGet
    \/ FillGetFails
    \/ FillChunk
    \/ FillChunkFails

\* runs of sync, each against some row source, with single failures
Spec == Init /\ [][Next]_vars

----------------------------------------------------------------------------
(* rebuild_table_from_batch on its own, for the stores sync can hand it,   *)
(* with an outage of the remote service that may last through the clear.   *)

\* the store sync holds after the pages of a source, from the file f
RECURSIVE merge_pages(_, _)
merge_pages(store, pages) ==
    IF pages = <<>> THEN store
    ELSE merge_pages(merge_rows(store, Head(pages)).store, Tail(pages))

RebuildStores ==
    {merge_pages(load_batch(f), src) : f \in Files0, src \in Sources}
        \cup {load_batch(json_dump(StoredPairs(ManyEntries)))}

InitRebuild ==
    /\ pc = "clear_get"
    /\ runs = 1
    /\ outcome = "running"
    /\ cfg = [dry_run |-> FALSE, enable_docs |-> TRUE]
    /\ section = DocSection
    /\ source = <<>>
    /\ page = 1
    /\ batch \in RebuildStores
    /\ file = json_dump(batch)
    /\ doc \in MainDocs
    /\ snap = <<>>
    /\ located = NotFound /\ matches = <<>> /\ diag = <<>>
    /\ row_count = 0 /\ start_index = None /\ attempts = 0 /\ rows_data = <<>>
    /\ insert_requests = <<>> /\ chunk_at = 0
    /\ failures = 0
    /\ outage \in BOOLEAN
    /\ lineage = batch_values(batch) /\ committed = batch /\ saved = TRUE
    /\ prev_run = NoPrev
    /\ snap_fresh = FALSE /\ last_req = NoReq /\ insert_sent = FALSE
    /\ clear_ret = "none" /\ clear_start = NoClearStart /\ created = <<>>
    /\ sent_inserts = <<>>
    /\ database = <<>> /\ item_at = 1 /\ total = 0 /\ existing = <<>>
    /\ cells = <<>>

\* the outage of the remote service is over
OutageEnds ==
    /\ outage
    /\ pc # "done"
    /\ outage' = FALSE
    /\ UNCHANGED <<pc, runs, outcome, cfgv, notionv, cells, source, page, batch, file, doc, snap, locv,
                   attempts, appendv, failures, storeh, rebuildh>>

NextRebuild ==
    \/ ClearGet
    \/ ClearGetFails
    \/ ClearDelete
    \/ ClearDeleteFails
    \/ RebuildGet
    \/ RebuildGetFails
    \/ AppendRefresh
    \/ AppendRefreshFails
    \/ InsertRows
    \/ InsertRowsFails
    \/ FillGet
    \/ FillGetFails
    \/ FillChunk
    \/ FillChunkFails
    \/ OutageEnds

SpecRebuild == InitRebuild /\ [][NextRebuild]_vars

----------------------------------------------------------------------------
(* rebuild_table_from_batch against a remote that is eventually            *)
(* consistent: a documents().get that follows a request may still answer   *)
(* with the body as it was before the request.                             *)

\* clear_table_body reads the body its last get returned: its delete does
\* not show yet
ClearGetStale ==
    /\ ~snap_fresh /\ snap # <<>>
    /\ ClearGetFrom(documents_get(snap), FALSE)

\* the fetch after the insert-row batch reads the body of before the batch
FillGetStale ==
    /\ ~snap_fresh /\ snap # <<>>
    /\ FillGetFrom(documents_get(snap), FALSE)

NextStale ==
    \/ ClearGet
    \/ ClearGetStale
    \/ ClearGetFails
    \/ ClearDelete
    \/ ClearDeleteFails
    \/ RebuildGet
    \/ RebuildGetFails
    \/ AppendRefresh
    \/ AppendRefreshFails
    \/ InsertRows
    \/ InsertRowsFails
    \/ FillGet
    \/ FillGetStale
    \/ FillGetFails
    \/ FillChunk
    \/ FillChunkFails

InitStale == InitRebuild /\ ~outage

SpecStale == InitStale /\ [][NextStale]_vars

\* the program runs on until it ends: weak fairness of NextStale, its
\* enabledness written as pc # "done" (every other position has a step that
\* only its position guards)
FairStale == SpecStale /\ ([]<>(pc = "done") \/ []<><<NextStale>>_vars)

----------------------------------------------------------------------------
(* The locator on its own: a document and a DOC_SECTION are drawn, and     *)
(* choose_table_by_section is applied to them.                             *)


LocElems ==
    { Para("HEADING_1", <<"A">>),
      Para("HEADING_2", <<"B">>),
      Para("HEADING_2", <<"C">>),
      Para("HEADING_3", <<"c", "!">>),
      Para("NORMAL_TEXT", <<"C">>),
      Table(<<HeaderRow>>) }

LocSections ==
    { <<"C">>, <<"Z">>, <<"b", "/", "a">>, <<">">> }

SeqsUpTo(S, n) == UNION {[1..k -> S] : k \in 0..n}

PathChars == {"a", "A", "b", " ", "-", ">"}

NormDoc == <<SectionBreak, Para("HEADING_1", <<"A", " ", "b">>), Table(<<HeaderRow>>),
             Para("HEADING_2", <<" ", "a", ".", "B">>), Table(<<HeaderRow>>),
             Para("HEADING_3", <<"-">>), Table(<<HeaderRow>>)>>

InitLocate ==
    /\ pc = "locate"
    /\ \/ doc \in SeqsUpTo(LocElems, MaxElems) /\ section \in LocSections
       \/ doc = NormDoc /\ section \in SeqsUpTo(PathChars, MaxPathLen)
    /\ located = NotFound /\ matches = <<>> /\ diag = <<>>
    /\ runs = 0 /\ outcome = "none"
    /\ cfg = [dry_run |-> FALSE, enable_docs |-> TRUE]
    /\ source = <<>> /\ page = 1 /\ batch = <<>> /\ file = MissingFile
    /\ snap = doc
    /\ row_count = 0 /\ start_index = None /\ attempts = 0 /\ rows_data = <<>>
    /\ insert_requests = <<>> /\ chunk_at = 0
    /\ failures = 0 /\ outage = FALSE
    /\ lineage = <<>> /\ committed = <<>> /\ saved = FALSE /\ prev_run = NoPrev
    /\ snap_fresh = TRUE /\ last_req = NoReq /\ insert_sent = FALSE
    /\ clear_ret = "none" /\ clear_start = NoClearStart /\ created = <<>>
    /\ sent_inserts = <<>>
    /\ database = <<>> /\ item_at = 1 /\ total = 0 /\ existing = <<>>
    /\ cells = <<>>

\* one call of choose_table_by_section(doc, section)
Locate ==
    /\ pc = "locate"
    /\ LET r == choose_table_by_section(doc, section)
       IN  /\ located' = r.ret /\ matches' = r.matches /\ diag' = r.warned
    /\ pc' = "located"
    /\ UNCHANGED <<runs, outcome, cfgv, notionv, cells, source, page, batch, file, doc, snap, attempts,
                   appendv, envv, storeh, rebuildh>>

NextLocate == Locate

SpecLocate == InitLocate /\ [][NextLocate]_vars

----------------------------------------------------------------------------
(* The fill of one row on its own: the cells are drawn as a snapshot may   *)
(* give them, with or without a first paragraph, its offsets and the       *)
(* cell's own, and the loop over the cells is applied to them.             *)

\* what a snapshot may tell of a cell whose paragraph starts at offset at
CellsSeen(at) ==
    [has_para : BOOLEAN, start_i : {None, at}, end_i : {None, at, at + 1},
     cell_start : {None, at - 1}]

RowTexts == { << <<"a">>, <<"b", "c">> >>, << <<>>, <<"b">> >>, << <<"a">> >> }

InitCell ==
    /\ pc = "fill_row"
    /\ cells \in {<<x, y>> : x \in CellsSeen(3), y \in CellsSeen(6)}
    /\ rows_data \in {<<t>> : t \in RowTexts}
    /\ insert_requests = <<>> /\ chunk_at = 0
    /\ runs = 0 /\ outcome = "none"
    /\ cfg = [dry_run |-> FALSE, enable_docs |-> TRUE]
    /\ section = DocSection
    /\ source = <<>> /\ page = 1 /\ batch = <<>> /\ file = MissingFile
    /\ doc = <<>> /\ snap = <<>>
    /\ located = NotFound /\ matches = <<>> /\ diag = <<>>
    /\ row_count = 0 /\ start_index = None /\ attempts = 0
    /\ failures = 0 /\ outage = FALSE
    /\ lineage = <<>> /\ committed = <<>> /\ saved = FALSE /\ prev_run = NoPrev
    /\ snap_fresh = TRUE /\ last_req = NoReq /\ insert_sent = FALSE
    /\ clear_ret = "none" /\ clear_start = NoClearStart /\ created = <<>>
    /\ sent_inserts = <<>>
    /\ database = <<>> /\ item_at = 1 /\ total = 0 /\ existing = <<>>

\* the loop over the cells of the row, then the sort
FillRow ==
    /\ pc = "fill_row"
    /\ insert_requests' = sort_insert_requests(row_requests(cells, rows_data[1], 1))
    /\ pc' = "row_filled"
    /\ UNCHANGED <<runs, outcome, cfgv, notionv, cells, source, page, batch, file, doc, snap, locv,
                   attempts, row_count, start_index, rows_data, chunk_at, envv, storeh,
                   rebuildh>>

NextCell == FillRow

SpecCell == InitCell /\ [][NextCell]_vars

----------------------------------------------------------------------------
(* The Notion sync (sync_submissions_to_notion.py): every scraped row is   *)
(* looked up in the database by its problem number and, when nothing is    *)
(* found, created if it is an accepted Java submission.                    *)

Unknown == <<"U", "n", "k", "n", "o", "w", "n">>

\* a row parse_rows returns: its "id" and the other cells
Item(id, row) ==
    [id |-> id, time_text |-> row.time_text, problem |-> row.problem, result |-> row.result,
     problem_url |-> row.problem_url, compiler |-> row.compiler]

\* getCodeAndTopic of the Notion sync: the code and the sub_group of the
\* record whose title is the URL's last segment (the last such record, as
\* in the dict built from the list), "Unknown" twice when there is none;
\* with an empty last segment `code` is never bound and the return raises
notion_getCodeAndTopic(problem_url) ==
    LET found(I) ==
            IF I # {}
            THEN LET it == problem_topics[CHOOSE i \in I : \A k \in I : k <= i]
                 IN  [raised |-> FALSE, code |-> it.code, topic |-> it.sub_group]
            ELSE [raised |-> FALSE, code |-> Unknown, topic |-> Unknown]
        lookup(problem_id) ==
            IF problem_id = <<>> THEN [raised |-> TRUE, code |-> <<>>, topic |-> <<>>]
            ELSE found({i \in DOMAIN problem_topics : problem_topics[i].title = problem_id})
    IN  lookup(last_segment(problem_url))

\* upsert_submission up to its query: kind "skip" where it returns False
\* for an empty id, "raise" where getCodeAndTopic raises or props has no
\* "No" (a row without a URL), else "query" with the properties prepared
upsert_props(item) ==
    LET props(sid, res, got) ==
            IF got.raised THEN [kind |-> "raise", sid |-> sid, res |-> res, no |-> <<>>,
                                topic |-> <<>>]
            ELSE [kind |-> "query", sid |-> sid, res |-> res, no |-> got.code,
                  topic |-> got.topic]
        prepared(sid, res) ==
            IF sid = <<>> THEN [kind |-> "skip", sid |-> sid, res |-> res, no |-> <<>>,
                                topic |-> <<>>]
            ELSE IF item.problem_url = <<>>
                 THEN [kind |-> "raise", sid |-> sid, res |-> res, no |-> <<>>, topic |-> <<>>]
            ELSE props(sid, res, notion_getCodeAndTopic(item.problem_url))
    IN  prepared(strip(item.id), strip(item.result))

\* notion.databases.query filtered on "No" equals number, page_size 1
databases_query(db, number) ==
    LET I == {i \in DOMAIN db : db[i].no = number}
    IN  IF I = {} THEN <<>> ELSE <<db[CHOOSE i \in I : \A k \in I : i <= k]>>

\* find_page_by_number: results[0] as a one-element sequence, None as the
\* empty one; None too when the query raises APIResponseError
find_page_by_number(db, number, query_fails) ==
    IF query_fails THEN <<>> ELSE databases_query(db, number)

\* upsert_submission after its query: "create" a page, "nothing" to write,
\* or "raise" where isCompilerJava is read without ever being bound
upsert_write(item, found) ==
    LET decided(res) ==
            IF found # <<>> THEN "nothing"
            ELSE IF res # <<"A", "C">> THEN "nothing"
            ELSE IF item.compiler = <<>> THEN "raise"
            ELSE IF lower(strip(item.compiler)) = <<"j", "a", "v", "a">> THEN "create"
            ELSE "nothing"
    IN  decided(strip(item.result))

\* the page notion.pages.create adds: the properties the sync writes, but
\* for the submission time
created_page(item) ==
    LET page_of(p) ==
            [problem |-> item.problem, sid |-> p.sid, result |-> p.res,
             url |-> item.problem_url, topic |-> p.topic, no |-> p.no]
    IN  page_of(upsert_props(item))

ItemTimed == Item(<<"1">>, RowA1)
ItemAgain == Item(<<"2", " ">>, Row(TimeB, <<"q">>, <<"A","C">>, <<"/","J","1">>,
                                   <<"j","a","v","a">>))
ItemWA == Item(<<"3">>, RowWA)
ItemCpp == Item(<<"4">>, RowCpp)
ItemUnknown == Item(<<"5">>, RowUnknown)
ItemOther == Item(<<"6">>, RowK)
ItemNoId == Item(<<" ">>, RowK)
ItemNoUrl == Item(<<"7">>, RowNoUrl)
ItemSlash == Item(<<"8">>, RowA2)
ItemNoCompiler == Item(<<"9">>, Row(TimeA, <<"k">>, <<"A","C">>, <<"/","J","3">>, <<>>))

\* the pages of rows the Notion sync scrapes, the same in every run
NotionSources ==
    { << <<ItemTimed, ItemWA, ItemAgain>> >>,
      << <<ItemCpp, ItemUnknown>>, <<ItemTimed>> >>,
      << <<ItemNoId, ItemOther>> >>,
      << <<ItemOther, ItemNoUrl>> >>,
      << <<ItemSlash>> >>,
      << <<ItemNoCompiler, ItemTimed>> >> }

\* the database before the first run: empty, or holding the page an earlier
\* run created for ItemTimed
Databases0 == { <<>>, <<created_page(ItemTimed)>> }

InitNotion ==
    /\ pc = "idle"
    /\ runs = 0 /\ outcome = "none"
    /\ cfg = [dry_run |-> FALSE, enable_docs |-> FALSE]
    /\ section = DocSection
    /\ source \in NotionSources
    /\ page = 1 /\ item_at = 1 /\ total = 0 /\ existing = <<>>
    /\ database \in Databases0
    /\ cells = <<>>
    /\ batch = <<>> /\ file = MissingFile
    /\ doc = <<>> /\ snap = <<>>
    /\ located = NotFound /\ matches = <<>> /\ diag = <<>>
    /\ row_count = 0 /\ start_index = None /\ attempts = 0 /\ rows_data = <<>>
    /\ insert_requests = <<>> /\ chunk_at = 0
    /\ failures = 0 /\ outage = FALSE
    /\ lineage = <<>> /\ committed = <<>> /\ saved = FALSE /\ prev_run = NoPrev
    /\ snap_fresh = FALSE /\ last_req = NoReq /\ insert_sent = FALSE
    /\ clear_ret = "none" /\ clear_start = NoClearStart /\ created = <<>>
    /\ sent_inserts = <<>>

\* what the Notion sync leaves alone
docsv == <<cfgv, cells, batch, file, doc, snap, locv, attempts, appendv, storeh, rebuildh>>

\* sync of the Notion script starts: notion_client, then the pages
NotionStartRun ==
    /\ pc \in {"idle", "done"}
    /\ runs < MaxRuns
    /\ runs' = runs + 1
    /\ page' = 1 /\ item_at' = 1 /\ total' = 0 /\ existing' = <<>>
    /\ pc' = "notion_fetch"
    /\ outcome' = "running"
    /\ UNCHANGED <<source, database, envv, docsv>>

\* the loop of sync moves to the next row, the next page or the end
NextItem ==
    IF item_at < Len(source[page])
    THEN pc' = "notion_query" /\ item_at' = item_at + 1 /\ page' = page /\ outcome' = outcome
    ELSE IF page < Len(source)
         THEN pc' = "notion_fetch" /\ item_at' = 1 /\ page' = page + 1 /\ outcome' = outcome
    ELSE Finish("synced") /\ item_at' = item_at /\ page' = page

\* one page fetched and parsed
NotionFetchPage ==
    /\ pc = "notion_fetch"
    /\ IF source[page] # <<>>
       THEN pc' = "notion_query" /\ page' = page /\ outcome' = outcome
       ELSE IF page < Len(source)
            THEN pc' = "notion_fetch" /\ page' = page + 1 /\ outcome' = outcome
       ELSE Finish("synced") /\ page' = page
    /\ item_at' = 1
    /\ UNCHANGED <<runs, source, total, existing, database, envv, docsv>>

\* fetch_page raises: nothing in sync catches it
NotionFetchPageFails ==
    /\ pc = "notion_fetch"
    /\ CanFail /\ CallFails
    /\ Finish("crashed")
    /\ UNCHANGED <<runs, source, page, item_at, total, existing, database, docsv>>

\* upsert_submission up to the return of find_page_by_number
UpsertQuery ==
    /\ pc = "notion_query"
    /\ LET queried(p) ==
               IF p.kind = "skip" THEN NextItem /\ existing' = <<>>
               ELSE IF p.kind = "raise"
                    THEN /\ Finish("crashed")
                         /\ existing' = <<>> /\ item_at' = item_at /\ page' = page
               ELSE /\ existing' = find_page_by_number(database, p.no, FALSE)
                    /\ pc' = "notion_write"
                    /\ item_at' = item_at /\ page' = page /\ outcome' = outcome
       IN  queried(upsert_props(source[page][item_at]))
    /\ UNCHANGED <<runs, source, total, database, envv, docsv>>

\* the query raises APIResponseError: find_page_by_number warns and returns None
UpsertQueryFails ==
    /\ pc = "notion_query"
    /\ upsert_props(source[page][item_at]).kind = "query"
    /\ CanFail /\ CallFails
    /\ existing' = find_page_by_number(database, upsert_props(source[page][item_at]).no, TRUE)
    /\ pc' = "notion_write"
    /\ UNCHANGED <<runs, outcome, source, page, item_at, total, database, docsv>>

\* upsert_submission from the query's return to its own
UpsertWrite ==
    /\ pc = "notion_write"
    /\ LET written(how) ==
               IF how = "raise"
               THEN /\ Finish("crashed")
                    /\ item_at' = item_at /\ page' = page
                    /\ database' = database /\ total' = total
               ELSE /\ NextItem
                    /\ total' = total + 1
                    /\ database' = (IF how = "create"
                                    THEN Append(database, created_page(source[page][item_at]))
                                    ELSE database)
       IN  written(upsert_write(source[page][item_at], existing))
    /\ existing' = <<>>
    /\ UNCHANGED <<runs, source, envv, docsv>>

\* notion.pages.create raises APIResponseError: upsert_submission returns False
UpsertWriteFails ==
    /\ pc = "notion_write"
    /\ upsert_write(source[page][item_at], existing) = "create"
    /\ CanFail /\ CallFails
    /\ NextItem
    /\ existing' = <<>>
    /\ UNCHANGED <<runs, source, total, database, docsv>>

NextNotion ==
    \/ NotionStartRun
    \/ NotionFetchPage
    \/ NotionFetchPageFails
    \/ UpsertQuery
    \/ UpsertQueryFails
    \/ UpsertWrite
    \/ UpsertWriteFails

\* runs of the Notion sync over the same rows, with single failures of its calls
SpecNotion == InitNotion /\ [][NextNotion]_vars

----------------------------------------------------------------------------
(* The locator on long documents: a heading, a run of other elements about *)
(* as long as the window of the backward walk, a nearer element and the    *)
(* table.                                                                  *)

\* n elements that are no headings
Fillers(n, el) == [k \in 1..n |-> el]

FillerElems == {Para("NORMAL_TEXT", <<"C">>), SectionBreak}

\* the heading far from the table: of any level, with text or blank
FarElems == {Para(level, text) : level \in {"HEADING_1", "HEADING_2", "HEADING_3"},
                                 text \in {<<"A">>, <<" ">>}}

\* the element near the table
NearElems == {Para("HEADING_1", <<"B">>), Para("HEADING_2", <<"B">>),
              Para("HEADING_1", <<>>), Para("NORMAL_TEXT", <<"A">>)}

\* the lengths of the run between the two
Gaps == {HeadingWindow - 4, HeadingWindow - 3, HeadingWindow - 2}

WindowDocs ==
    {Fillers(lead, el) \o <<far>> \o Fillers(gap, el) \o <<near>> \o Fillers(tail, el)
        \o <<Table(<<HeaderRow>>)>> :
        lead \in 0..1, far \in FarElems, gap \in Gaps, near \in NearElems, tail \in 0..1,
        el \in FillerElems}

WindowSections == {<<"A">>, <<"b">>}

InitWindow ==
    /\ pc = "locate"
    /\ doc \in WindowDocs /\ section \in WindowSections
    /\ located = NotFound /\ matches = <<>> /\ diag = <<>>
    /\ runs = 0 /\ outcome = "none"
    /\ cfg = [dry_run |-> FALSE, enable_docs |-> TRUE]
    /\ source = <<>> /\ page = 1 /\ batch = <<>> /\ file = MissingFile
    /\ snap = doc
    /\ row_count = 0 /\ start_index = None /\ attempts = 0 /\ rows_data = <<>>
    /\ insert_requests = <<>> /\ chunk_at = 0
    /\ failures = 0 /\ outage = FALSE
    /\ lineage = <<>> /\ committed = <<>> /\ saved = FALSE /\ prev_run = NoPrev
    /\ snap_fresh = TRUE /\ last_req = NoReq /\ insert_sent = FALSE
    /\ clear_ret = "none" /\ clear_start = NoClearStart /\ created = <<>>
    /\ sent_inserts = <<>>
    /\ database = <<>> /\ item_at = 1 /\ total = 0 /\ existing = <<>>
    /\ cells = <<>>

NextWindow == Locate

SpecWindow == InitWindow /\ [][NextWindow]_vars

----------------------------------------------------------------------------
(* What the locator is required to compute, stated without its code: the   *)
(* words of a string, the nearest preceding heading of a level, and the    *)
(* tables some path segment names.                                         *)

\* the maximal runs of letters and digits of s, case folded
RECURSIVE WordsOf(_, _)
WordsOf(s, cur) ==
    IF s = <<>> THEN (IF cur = <<>> THEN <<>> ELSE <<cur>>)
    ELSE IF isalnum(Head(s)) THEN WordsOf(Tail(s), Append(cur, Head(s)))
         ELSE (IF cur = <<>> THEN <<>> ELSE <<cur>>) \o WordsOf(Tail(s), <<>>)

Words(s) == WordsOf(casefold(s), <<>>)

HeadingLevels == {"HEADING_1", "HEADING_2", "HEADING_3"}

\* the text of the nearest paragraph of style `level` with text before position i
NearestHeading(content, i, level) ==
    LET J == {j \in 1..(i - 1) : /\ content[j].kind = "paragraph"
                                 /\ content[j].style = level
                                 /\ strip(content[j].text) # <<>>}
    IN  IF J = {} THEN <<>>
        ELSE strip(content[CHOOSE j \in J : \A k \in J : k <= j].text)

\* the raw segments of a heading path
Segments(path) == IF path = <<>> THEN <<>> ELSE re_split(path, <<>>)

\* the tables of content that some segment of path names at some level
MatchingTables(content, path) ==
    {i \in DOMAIN content :
        /\ content[i].kind = "table"
        /\ \E k \in DOMAIN Segments(path) : \E level \in HeadingLevels :
              /\ Words(Segments(path)[k]) # <<>>
              /\ Words(Segments(path)[k]) = Words(NearestHeading(content, i, level))}

IndexSet(ms) == {ms[k].index : k \in DOMAIN ms}

\* the document of the spec's example: tables under A > B and under A > C
ExampleDoc == <<Para("HEADING_1", <<"A">>), Para("HEADING_2", <<"B">>), Table(<<HeaderRow>>),
                Para("HEADING_2", <<"C">>), Table(<<HeaderRow>>)>>

C9_NoMatchNoFallback ==
    pc = "located" =>
        /\ MatchingTables(doc, section) = {} => located = NotFound
        /\ split_section_path(section) = <<>> => located = NotFound
        /\ located.found => located.index \in MatchingTables(doc, section)

\* path Z against the tables under A > B and A > C
C9_Witness ==
    /\ pc = "located"
    /\ doc = ExampleDoc
    /\ section = <<"Z">>
    /\ located = NotFound

\* C10: with several matching tables choose_table_by_section returns the
\* first in document order and prints a diagnostic listing all of them;
\* with exactly one it returns that one.
C10_FirstMatchAndDiagnostic ==
    pc = "located" /\ MatchingTables(doc, section) # {} =>
        /\ located.found
        /\ located.index \in MatchingTables(doc, section)
        /\ \A i \in MatchingTables(doc, section) : located.index <= i
        /\ Cardinality(MatchingTables(doc, section)) > 1 =>
              /\ IndexSet(diag) = MatchingTables(doc, section)
              /\ \A a, b \in DOMAIN diag : a < b => diag[a].index < diag[b].index
        /\ (doc = ExampleDoc /\ section = <<"C">>) => located.index = 5

\* several tables match and the first is returned, with the diagnostic
C10_Witness ==
    /\ pc = "located"
    /\ Cardinality(MatchingTables(doc, section)) > 1
    /\ Len(diag) > 1
    /\ located.index = diag[1].index
    /\ located.index < diag[2].index

----------------------------------------------------------------------------
(* What the store and the rebuild are required to do, stated without their *)
(* code.                                                                   *)

\* the decimal value of a string of digits
RECURSIVE Decimal(_)
Decimal(s) == IF s = <<>> THEN 0 ELSE 10 * Decimal(SubSeq(s, 1, Len(s) - 1)) + DigitVal(s[Len(s)])

\* the parts of s between dashes
RECURSIVE DashParts(_, _)
DashParts(s, cur) ==
    IF s = <<>> THEN <<cur>>
    ELSE IF Head(s) = "-" THEN <<cur>> \o DashParts(Tail(s), <<>>)
    ELSE DashParts(Tail(s), Append(cur, Head(s)))

IsNumeral(s, widths) == Len(s) \in widths /\ \A i \in DOMAIN s : isdigit(s[i])

\* the day the text names as day-month-year, as a number that grows with
\* the date; 0, before every date, when the text names no day
DateValue(s) ==
    LET parts == DashParts(s, <<>>)
    IN  IF /\ Len(parts) = 3
           /\ IsNumeral(parts[1], {1, 2}) /\ IsNumeral(parts[2], {1, 2})
           /\ IsNumeral(parts[3], {4})
           /\ Decimal(parts[3]) >= 1
           /\ Decimal(parts[2]) \in 1..12
           /\ Decimal(parts[1]) \in 1..DaysInMonth(Decimal(parts[3]), Decimal(parts[2]))
        THEN Decimal(parts[3]) * 10000 + Decimal(parts[2]) * 100 + Decimal(parts[1])
        ELSE 0

\* the rows of the table DOC_SECTION names in the body d
TargetRows(d) ==
    LET M == MatchingTables(d, section)
    IN  IF M = {} THEN <<>> ELSE d[CHOOSE i \in M : \A k \in M : i <= k].rows

\* a table row holds an entry: its first five cells are the entry's date,
\* topic, number, problem and result, and any further cell is empty
RowHolds(row, e) ==
    /\ Len(row) >= 5
    /\ row[1] = e.date /\ row[2] = e.topic /\ row[3] = e.number
    /\ row[4] = e.problem /\ row[5] = e.result
    /\ \A c \in 6..Len(row) : row[c] = <<>>

\* row a may stand before row b: later date first, then greater number
RowBefore(a, b) ==
    \/ DateValue(a[1]) > DateValue(b[1])
    \/ DateValue(a[1]) = DateValue(b[1]) /\ Decimal(a[3]) >= Decimal(b[3])

\* C1: when rebuild_table_from_batch has returned True, the data rows of
\* the located table are one row per entry of the store, each holding its
\* entry's five fields, ordered by descending date then descending number;
\* the header row is the one the table had before, whatever data rows the
\* table had.
C1_RebuildMakesTableEqualStore ==
    (pc = "done" /\ outcome = "rebuilt") =>
        LET rows == TargetRows(doc)
            data == SubSeq(rows, 2, Len(rows))
        IN  /\ rows # <<>>
            /\ rows[1] = clear_start.rows[1]
            /\ Len(data) = Len(batch)
            /\ \A k \in DOMAIN batch :
                  Cardinality({i \in DOMAIN data : RowHolds(data[i], batch[k].entry)}) = 1
            /\ \A i \in 1..(Len(data) - 1) : RowBefore(data[i], data[i + 1])

\* a table that had data rows is rebuilt from a store of several entries,
\* one of them with a date that names no day
C1_Witness ==
    /\ pc = "done" /\ outcome = "rebuilt"
    /\ Len(clear_start.rows) >= 3
    /\ Len(batch) >= 2
    /\ \E k \in DOMAIN batch : DateValue(batch[k].entry.date) = 0
    /\ \E k \in DOMAIN batch : DateValue(batch[k].entry.date) > 0

\* the first entry of a sequence of entries with the given number
FirstWith(entries, number) ==
    entries[CHOOSE i \in DOMAIN entries :
               /\ entries[i].number = number
               /\ \A k \in DOMAIN entries : entries[k].number = number => i <= k]

\* C2: the store holds at most one entry per number, the first one merged
\* with that number within the run or in earlier runs whose store was saved
\* and loaded again; every number merged is in the store.
C2_FirstEntryOfNumberWins ==
    pc # "idle" =>
        /\ \A i, k \in DOMAIN batch : batch[i].key = batch[k].key => i = k
        /\ \A i \in DOMAIN batch :
              /\ batch[i].key = batch[i].entry.number
              /\ \E k \in DOMAIN lineage : lineage[k].number = batch[i].key
              /\ batch[i].entry = FirstWith(lineage, batch[i].key)
        /\ \A k \in DOMAIN lineage : \E i \in DOMAIN batch : batch[i].key = lineage[k].number

\* in a second run, over a saved store, a number comes again with another entry
C2_Witness ==
    /\ runs = 2 /\ pc = "persist"
    /\ prev_run.saved
    /\ \E a, b \in DOMAIN lineage :
          /\ a <= Len(prev_run.file.pairs) /\ b > Len(prev_run.file.pairs)
          /\ lineage[a].number = lineage[b].number
          /\ lineage[a] # lineage[b]

\* C3: a run after a run over the same row source saves the same store,
\* and its rebuild leaves the table with the same content.
C3_SecondRunChangesNothing ==
    (pc = "done" /\ runs >= 2 /\ source = prev_run.source /\ prev_run.saved) =>
        /\ saved => file = prev_run.file
        /\ (outcome = "rebuilt" /\ prev_run.outcome = "rebuilt") =>
              TargetRows(doc) = TargetRows(prev_run.doc)

\* two runs over one source, both saved and both rebuilt
C3_Witness ==
    /\ pc = "done" /\ runs = 2
    /\ source = prev_run.source
    /\ saved /\ prev_run.saved
    /\ outcome = "rebuilt" /\ prev_run.outcome = "rebuilt"
    /\ Len(batch) >= 2

\* the characters of a body in offset order, every structural position
\* (a table, a row, a cell, the end of a paragraph) holding a mark
CellStream(text) == <<"cell">> \o text \o <<"end">>

RECURSIVE RowStream(_)
RowStream(row) == IF row = <<>> THEN <<>> ELSE CellStream(Head(row)) \o RowStream(Tail(row))

RECURSIVE RowsStream(_)
RowsStream(rows) ==
    IF rows = <<>> THEN <<>> ELSE <<"row">> \o RowStream(Head(rows)) \o RowsStream(Tail(rows))

RECURSIVE Stream(_)
Stream(d) ==
    IF d = <<>> THEN <<>>
    ELSE (CASE Head(d).kind = "paragraph" -> Head(d).text \o <<"end">>
            [] Head(d).kind = "table" -> <<"table">> \o RowsStream(Head(d).rows)
            [] OTHER -> <<"break">>)
         \o Stream(Tail(d))

\* the characters the requests among reqs with an offset in S insert
Inserted(reqs, S) ==
    Cardinality({x \in UNION {{<<k, c>> : c \in DOMAIN reqs[k].text} : k \in DOMAIN reqs} :
                   reqs[x[1]].index \in S})

\* `after` is `before` with the text of every request of reqs put in front
\* of the character that stood at the request's offset in `before`
Woven(before, reqs, after) ==
    /\ Len(after) = Len(before) + Inserted(reqs, 0..Len(before))
    /\ \A o \in 0..(Len(before) - 1) :
          after[o + 1 + Inserted(reqs, 0..o)] = before[o + 1]
    /\ \A k \in DOMAIN reqs :
          SubSeq(after, reqs[k].index + 1 + Inserted(reqs, 0..(reqs[k].index - 1)),
                 reqs[k].index + Inserted(reqs, 0..reqs[k].index)) = reqs[k].text

\* the spec's example: insertions at the offsets 10, 25 and 40 of a paragraph
OffsetsDoc == <<Para("NORMAL_TEXT", [i \in 1..45 |-> "."])>>
OffsetsRequests ==
    <<InsertText(10, <<"x">>), InsertText(25, <<"y", "y">>), InsertText(40, <<"z">>)>>
OffsetsDescending == <<OffsetsRequests[3], OffsetsRequests[2], OffsetsRequests[1]>>

\* C4: the text insertions go out in non-increasing offset order over all
\* chunks, and the rebuilt document is the snapshot the offsets were read
\* from with every text at its offset; at the offsets 10, 25 and 40 the
\* descending order puts every text at its offset and the ascending order
\* does not.
C4_DescendingOffsetsKeepPositions ==
    /\ \A i \in 1..(Len(sent_inserts) - 1) : sent_inserts[i].index >= sent_inserts[i + 1].index
    /\ (pc = "done" /\ outcome = "rebuilt" /\ sent_inserts # <<>>) =>
          Woven(Stream(snap), sent_inserts, Stream(doc))
    /\ sort_insert_requests(OffsetsRequests) = OffsetsDescending
    /\ Woven(Stream(OffsetsDoc), OffsetsRequests,
             Stream(batchUpdate(OffsetsDoc, sort_insert_requests(OffsetsRequests)).doc))
    /\ ~Woven(Stream(OffsetsDoc), OffsetsRequests,
              Stream(batchUpdate(OffsetsDoc, OffsetsRequests).doc))

\* a fill of more than one chunk has rebuilt the table
C4_Witness ==
    /\ pc = "done" /\ outcome = "rebuilt"
    /\ Len(sent_inserts) > ChunkSize
    /\ sent_inserts[1].index > sent_inserts[Len(sent_inserts)].index

\* C5: every delete request of the clear addresses row index 1 of the
\* table, carries the table start of a snapshot fetched after the request
\* before it, and removes that one row when it is accepted; when
\* clear_table_body has returned True the located table is the row it had
\* at index 0 when the clear started, and nothing else.
C5_ClearDeletesFirstDataRowOnly ==
    /\ last_req.sent =>
          /\ last_req.req.op = "deleteTableRow"
          /\ last_req.req.rowIndex = 1
          /\ last_req.fresh
          /\ last_req.req.index = last_req.table_start
          /\ Len(last_req.before) >= 2
          /\ last_req.ok =>
                last_req.after = <<last_req.before[1]>>
                                    \o SubSeq(last_req.before, 3, Len(last_req.before))
          /\ ~last_req.ok => last_req.after = last_req.before
    /\ (clear_ret = "true" /\ ~insert_sent) =>
          /\ clear_start.set
          /\ TargetRows(doc) = <<clear_start.rows[1]>>

\* the clear has returned True after accepted deletes and failed ones
C5_Witness ==
    /\ clear_ret = "true" /\ pc = "rebuild_get"
    /\ Len(clear_start.rows) >= 3
    /\ last_req.sent /\ last_req.ok
    /\ outage

\* C6: when the clear has not completed, rebuild_table_from_batch returns
\* False and no insert-row or insert-text request is issued; insertions are
\* issued only after clear_table_body has returned True.
C6_NoInsertAfterFailedClear ==
    /\ clear_ret = "false" =>
          /\ pc = "done" /\ outcome = "failed"
          /\ ~insert_sent /\ sent_inserts = <<>> /\ created = <<>>
    /\ (insert_sent \/ sent_inserts # <<>>) => clear_ret = "true"

\* the failed deletes have reached the bound with the table partly cleared
C6_Witness ==
    /\ clear_ret = "false"
    /\ attempts = max_attempts
    /\ Len(TargetRows(doc)) > 1
    /\ Len(TargetRows(doc)) < Len(clear_start.rows)

\* the cells of table ti of d: row (counted from 0 as in the code's r_idx
\* plus one), column, and the offsets the cell's paragraph lies between
CellSpans(d, ti) ==
    {[row |-> x[1], col |-> x[2],
      lo |-> CellStart(d, ti, x[1], x[2]), hi |-> CellParaEnd(d, ti, x[1], x[2])] :
        x \in UNION {{<<r, c>> : c \in DOMAIN d[ti].rows[r]} : r \in DOMAIN d[ti].rows}}

NoCell == [row |-> 0, col |-> 0, lo |-> 0, hi |-> 0]

\* the cell among spans whose paragraph holds offset index
TargetOf(spans, index) ==
    IF \E s \in spans : s.lo < index /\ index < s.hi
    THEN CHOOSE s \in spans : s.lo < index /\ index < s.hi
    ELSE NoCell

\* C7: the text insertions go into the rows the insert-row batch created
\* and into no other row, the k-th created row receiving the k-th row of
\* data, cell by cell.
C7_FillTargetsCreatedRows ==
    insert_requests # <<>> =>
        LET holds(spans) ==
                /\ Len(created) = Len(rows_data)
                /\ \A q \in DOMAIN insert_requests :
                      LET x == TargetOf(spans, insert_requests[q].index)
                      IN  /\ x # NoCell
                          /\ x.row > 1
                          /\ x.row > row_count
                          /\ \E k \in DOMAIN created :
                                /\ created[k] + 1 = x.row
                                /\ x.col \in DOMAIN rows_data[k]
                                /\ insert_requests[q].text = rows_data[k][x.col]
                /\ \A k \in DOMAIN created :
                      \E q \in DOMAIN insert_requests :
                         TargetOf(spans, insert_requests[q].index).row = created[k] + 1
                /\ \A k \in DOMAIN created : \A c \in DOMAIN rows_data[k] :
                      rows_data[k][c] # <<>> =>
                         \E q \in DOMAIN insert_requests :
                            /\ insert_requests[q].text = rows_data[k][c]
                            /\ \E s \in spans :
                                  /\ s.row = created[k] + 1 /\ s.col = c
                                  /\ s.lo < insert_requests[q].index
                                  /\ insert_requests[q].index < s.hi
        IN  holds(CellSpans(snap, located.index))

\* several rows created below the header are about to be filled
C7_Witness ==
    /\ pc = "fill_chunk"
    /\ Len(created) >= 2
    /\ row_count = 1
    /\ Len(insert_requests) >= 10

----------------------------------------------------------------------------
(* The locator against its docstring (lines 187-191).                      *)

\* the words of the non-empty nearest headings of table i, level 1 to 3
HeadingPath(content, i) ==
    LET h(level) == Words(NearestHeading(content, i, level))
        keep(w) == IF w = <<>> THEN <<>> ELSE <<w>>
    IN  keep(h("HEADING_1")) \o keep(h("HEADING_2")) \o keep(h("HEADING_3"))

\* the words of the non-empty segments of a path, in order
RECURSIVE PathWordsOf(_)
PathWordsOf(segs) ==
    IF segs = <<>> THEN <<>>
    ELSE (IF Words(Head(segs)) = <<>> THEN <<>> ELSE <<Words(Head(segs))>>)
         \o PathWordsOf(Tail(segs))

PathWords(path) == PathWordsOf(Segments(path))

\* C11: a table is returned only when its heading path, level by level, is
\* the DOC_SECTION path; a table that shares only some heading with the
\* path is not returned.
C11_ExactPathMatch ==
    (pc = "located" /\ located.found) =>
        HeadingPath(doc, located.index) = PathWords(section)

----------------------------------------------------------------------------
(* The classification gate, stated on the rows sync has fetched.           *)

RECURSIVE Flatten(_)
Flatten(pages) == IF pages = <<>> THEN <<>> ELSE Head(pages) \o Flatten(Tail(pages))

\* the rows of the pages sync has fetched, parsed and merged in this run
FetchedRows ==
    Flatten(SubSeq(source, 1, IF pc = "fetch" THEN page - 1 ELSE Len(source)))

\* the text names the Java compiler, in any letter case
IsJava(s) ==
    /\ Len(s) = 4
    /\ s[1] \in {"j", "J"} /\ s[2] \in {"a", "A"} /\ s[3] \in {"v", "V"} /\ s[4] \in {"a", "A"}

\* the gate: result AC and compiler java, both trimmed, and a problem URL
Qualifies(row) ==
    /\ strip(row.result) = <<"A", "C">>
    /\ IsJava(strip(row.compiler))
    /\ row.problem_url # <<>>

\* the gate with the compiler compared as written
QualifiesExactly(row) ==
    /\ row.result = <<"A", "C">>
    /\ row.compiler = <<"j", "a", "v", "a">>
    /\ row.problem_url # <<>>

ProblemsOf(rows) == [i \in DOMAIN rows |-> rows[i].problem]

\* the problems of the entries make_batch_entry has returned in this run
AcceptedProblems ==
    [i \in 1..(Len(lineage) - Len(committed)) |-> lineage[Len(committed) + i].problem]

\* C12 (as the code has it): the rows make_batch_entry returns an entry for
\* are, in order, the fetched rows with result AC and a compiler that reads
\* java in any letter case, both trimmed, and a problem URL; the other rows
\* produce no entry, nothing of them reaches the store, and the rows after
\* them are classified.
C12_GateAcceptsAcJavaWithUrl ==
    pc \in {"fetch", "persist"} =>
        /\ AcceptedProblems = ProblemsOf(SelectSeq(FetchedRows, Qualifies))
        /\ \A i \in DOMAIN batch :
              \/ \E k \in 1..Len(committed) : lineage[k] = batch[i].entry
              \/ \E k \in DOMAIN FetchedRows :
                    Qualifies(FetchedRows[k]) /\ FetchedRows[k].problem = batch[i].entry.problem

\* a rejected row stands before an accepted one in a fetched page
C12_Witness ==
    /\ pc = "persist"
    /\ \E k \in DOMAIN FetchedRows :
          /\ ~Qualifies(FetchedRows[k])
          /\ \E m \in DOMAIN FetchedRows : m > k /\ Qualifies(FetchedRows[m])
    /\ \E k \in DOMAIN FetchedRows :
          Qualifies(FetchedRows[k]) /\ ~QualifiesExactly(FetchedRows[k])
    /\ Len(AcceptedProblems) >= 2

\* C12 (as stated): an entry is returned only for a row whose result equals
\* "AC" and whose compiler equals "java".
C12_GateComparesAsWritten ==
    pc \in {"fetch", "persist"} =>
        AcceptedProblems = ProblemsOf(SelectSeq(FetchedRows, QualifiesExactly))

\* the lookup holds a record for the problem the URL names
HasRecord(problem_url) ==
    \E i \in DOMAIN problem_topics :
        problem_topics[i].title = last_segment(rstrip_slash(problem_url))

\* C13: for a row that passes the gate and whose problem the lookup holds no
\* record for, getCodeAndTopic returns its three values and make_batch_entry
\* returns an entry with topic "Unknown"; neither raises.
C13_UnknownProblemDefaults ==
    \A p \in DOMAIN source : \A k \in DOMAIN source[p] :
        (Qualifies(source[p][k]) /\ ~HasRecord(source[p][k].problem_url)) =>
            /\ Len(getCodeAndTopic(source[p][k].problem_url)) = 3
            /\ make_batch_entry(source[p][k]).kind = "entry"
            /\ make_batch_entry(source[p][k]).entry.topic = <<"U", "n", "k", "n", "o", "w", "n">>

\* C14: a run whose save_batch did not write the store ends there as a
\* failure: it makes no call to the remote document and does not end as
\* rebuilt, dry-run done or store-only done.
C14_FailedSaveIsFatal ==
    (runs >= 1 /\ ~saved /\ pc \notin {"fetch", "persist"}) =>
        /\ pc = "done"
        /\ outcome \in {"failed", "crashed"}
        /\ snap = <<>>
        /\ ~last_req.sent /\ ~insert_sent

\* C15: sync starts with the mapping BATCH_FILE holds when the file holds a
\* JSON object, and with the empty mapping when the file is missing, empty,
\* malformed or holds another JSON value; in every case the run goes on to
\* fetch its first page.
C15_LoadBatchFailsSoft ==
    (pc = "fetch" /\ page = 1) =>
        /\ file.kind = "object" => batch = file.pairs
        /\ file.kind \in {"missing", "empty", "malformed", "value"} => batch = <<>>
        /\ outcome = "running"

\* a run has started on the file a failed write of the run before left
C15_Witness ==
    /\ pc = "fetch" /\ page = 1
    /\ runs = 2
    /\ file.kind = "malformed"
    /\ ~prev_run.saved
    /\ batch = <<>>

----------------------------------------------------------------------------
(* How a run ends.                                                         *)

\* the exit status of the process: die() raises SystemExit with a message
\* and an uncaught exception ends the interpreter, both with status 1
ExitStatus(o) == IF o \in {"failed", "crashed"} THEN 1 ELSE 0

\* C16: with remote sync enabled and dry-run off, a run that has ended with
\* exit status 0 reports the table as rebuilt, and then the clear returned
\* True, the table was located, the insert-row batch created a row for every
\* entry, every chunk of text insertions was accepted and no data row is
\* left unfilled; a run in which one of these steps failed ends with a
\* non-zero status.
C16_OnlyFullRebuildIsSuccess ==
    (pc = "done" /\ cfg.enable_docs /\ ~cfg.dry_run /\ ExitStatus(outcome) = 0) =>
        /\ outcome = "rebuilt"
        /\ clear_ret = "true"
        /\ located.found
        /\ Len(rows_data) = Len(batch)
        /\ Len(created) = Len(batch)
        /\ (batch # <<>>) => insert_sent
        /\ sent_inserts = insert_requests
        /\ chunk_at >= Len(insert_requests)
        /\ Len(TargetRows(doc)) = 1 + Len(batch)
        /\ \A i \in 2..Len(TargetRows(doc)) : TargetRows(doc)[i][3] # <<>>

\* a rebuild that stopped between two chunks of text insertions has ended
\* with a non-zero status
C16_Witness ==
    /\ pc = "done"
    /\ ExitStatus(outcome) = 1
    /\ clear_ret = "true" /\ insert_sent
    /\ chunk_at > 0
    /\ \E i \in 2..Len(TargetRows(doc)) : TargetRows(doc)[i][3] = <<>>

\* C17: when fetch_page fails for a page, sync skips that page and goes on
\* to the next page, or to saving the store after the last page.
C17_FailedPageIsSkipped ==
    [][(pc = "fetch" /\ failures' > failures) =>
          (pc' \in {"fetch", "persist"} /\ outcome' = "running")]_vars

\* the positions of sync inside rebuild_table_from_batch
RemotePcs ==
    {"clear_get", "clear_delete", "rebuild_get", "append_refresh", "insert_rows", "fill_get",
     "fill_chunk"}

\* this run has called the remote document API
RemoteCalled ==
    snap # <<>> \/ last_req.sent \/ insert_sent \/ clear_ret # "none" \/ sent_inserts # <<>>

\* C18: rows are merged only while the pages are fetched; the store is saved
\* after the last page has been merged and before the first remote call, in
\* dry-run mode as well; the remote document is called only with dry-run off
\* and remote sync enabled, and never in dry-run mode.
C18_FetchMergePersistThenRebuild ==
    /\ [](/\ (pc \in RemotePcs \/ RemoteCalled) =>
               (~cfg.dry_run /\ cfg.enable_docs /\ runs >= 1 /\ page = Len(source))
          /\ (pc \in {"fetch", "persist"}) => ~RemoteCalled
          /\ (pc = "done" /\ outcome \in {"dry", "nodocs", "rebuilt"} /\ failures = 0) =>
               (saved /\ file = json_dump(batch))
          /\ (pc = "done" /\ outcome = "dry") => cfg.dry_run
          /\ (pc = "done" /\ outcome = "nodocs") => ~cfg.enable_docs)
    /\ [][/\ (batch' # batch) => (pc \in {"idle", "done", "fetch"})
          /\ (file' # file) => (pc = "persist" /\ page = Len(source))
          /\ (pc = "persist") =>
                (/\ pc' \in (IF cfg.dry_run \/ ~cfg.enable_docs THEN {"done"} ELSE {"clear_get"})
                 /\ (saved' => file' = json_dump(batch)))
          /\ (pc' \in RemotePcs /\ pc \notin RemotePcs) => pc = "persist"
          /\ (doc' # doc) => pc \in RemotePcs]_vars

\* a dry run has saved a store of several entries and called nothing remote
C18_Witness ==
    /\ pc = "done" /\ outcome = "dry"
    /\ saved /\ Len(file.pairs) >= 2
    /\ Len(source) >= 2
    /\ ~RemoteCalled

----------------------------------------------------------------------------
(* The chunks of the fill.                                                 *)

\* the chunks of at most ChunkSize requests, in the order of reqs
ChunksOf(reqs) ==
    [k \in 1..((Len(reqs) + ChunkSize - 1) \div ChunkSize) |->
        SubSeq(reqs, (k - 1) * ChunkSize + 1,
               IF k * ChunkSize <= Len(reqs) THEN k * ChunkSize ELSE Len(reqs))]

\* the document after the chunks have been submitted one after the other
RECURSIVE SubmitAll(_, _)
SubmitAll(d, chunks) ==
    IF chunks = <<>> THEN d ELSE SubmitAll(batchUpdate(d, Head(chunks)).doc, Tail(chunks))

\* the chunks in the order a permutation of their positions gives
Reordered(chunks, perm) == [k \in DOMAIN chunks |-> chunks[perm[k]]]

\* the fill stands before its first chunk and has more than one
BeforeChunks == pc = "fill_chunk" /\ chunk_at = 0 /\ Len(insert_requests) > ChunkSize

\* C19 (as the code has it): every batch of text insertions holds at most
\* 50 requests and the batches sent are consecutive pieces of the sorted
\* sequence, every request in exactly one; submitted in that order they put
\* every text at its offset, and submitted in the reverse order they leave
\* another document.
C19_ChunksInSortedOrder ==
    /\ []((pc = "done" /\ outcome = "rebuilt") => sent_inserts = insert_requests)
    /\ [](BeforeChunks =>
             /\ Woven(Stream(doc), insert_requests,
                      Stream(SubmitAll(doc, ChunksOf(insert_requests))))
             /\ SubmitAll(doc, Reordered(ChunksOf(insert_requests),
                                         [k \in 1..2 |-> 3 - k]))
                   # SubmitAll(doc, ChunksOf(insert_requests)))
    /\ [][(sent_inserts' # sent_inserts) =>
             /\ Len(sent_inserts') - Len(sent_inserts) <= ChunkSize
             /\ Len(sent_inserts') <= Len(insert_requests)
             /\ sent_inserts' = SubSeq(insert_requests, 1, Len(sent_inserts'))]_vars

\* the first chunk of two has been sent
C19_Witness ==
    /\ pc = "fill_chunk"
    /\ chunk_at = ChunkSize
    /\ Len(sent_inserts) = ChunkSize
    /\ Len(insert_requests) > ChunkSize

\* C19 (as stated): whatever the order in which the chunks of the sorted
\* insertions are submitted, the final document is the same.
C19_AnyChunkOrderSameDocument ==
    BeforeChunks =>
        \A perm \in Permutations(DOMAIN ChunksOf(insert_requests)) :
            SubmitAll(doc, Reordered(ChunksOf(insert_requests), perm))
               = SubmitAll(doc, ChunksOf(insert_requests))

----------------------------------------------------------------------------
(* The de-duplication of the Notion sync.                                  *)

\* no two pages of the database carry the same problem number or the same
\* submission id
NoDuplicatePage(db) ==
    \A i, j \in DOMAIN db : (db[i].no = db[j].no \/ db[i].sid = db[j].sid) => i = j

\* the row upsert_submission is at
ItemAtHand == source[page][item_at]

\* C20: a page is created only for an AC / Java row whose problem number no
\* page of the database carries, and so the database never holds two pages
\* for the same submission or the same problem number, whatever the outcome
\* of the queries.
C20_CreatesOnlyWhenAbsent ==
    /\ [](NoDuplicatePage(database))
    /\ [][(database' # database) =>
             /\ pc = "notion_write"
             /\ strip(ItemAtHand.result) = <<"A", "C">>
             /\ lower(strip(ItemAtHand.compiler)) = <<"j", "a", "v", "a">>
             /\ databases_query(database, upsert_props(ItemAtHand).no) = <<>>
             /\ database' = Append(database, created_page(ItemAtHand))]_vars

\* while every query is answered, the database holds no two pages for the
\* same submission or problem number
QueriesAnsweredNoDuplicate == (failures = 0) => NoDuplicatePage(database)

----------------------------------------------------------------------------
(* The snapshot a request's offsets come from.                             *)

\* the step sends the request the program stands before at p
Sends(p) == pc = p /\ outage' = outage

\* C21 (as the code has it): every row delete and the insert-row batch
\* carry the table start read from a snapshot fetched after the most recent
\* earlier request; all chunks of text insertions carry offsets read from
\* the one snapshot fetched after the insert-row batch, with no fetch
\* between them, and every offset of a later chunk lies below every offset
\* already sent.
C21_OffsetsFreshOrBelowSent ==
    [][/\ Sends("clear_delete") =>
             /\ snap_fresh /\ located.found
             /\ start_index = StartOf(snap, located.index)
       /\ Sends("insert_rows") =>
             /\ snap_fresh /\ located.found
             /\ start_index = StartOf(snap, located.index)
             /\ row_count = Len(table_rows(snap, located))
       /\ Sends("fill_chunk") =>
             /\ located.found
             /\ insert_requests
                   = sort_insert_requests(fill_requests(snap, located.index, rows_data).reqs)
             /\ snap_fresh <=> (chunk_at = 0)
             /\ \A k \in DOMAIN chunk_of(insert_requests, chunk_at) :
                    \A j \in DOMAIN sent_inserts :
                        chunk_of(insert_requests, chunk_at)[k].index < sent_inserts[j].index
      ]_vars

\* a rebuild has sent more than one chunk of text insertions
C21_Witness ==
    /\ pc = "done" /\ outcome = "rebuilt"
    /\ Len(sent_inserts) > ChunkSize
    /\ ~snap_fresh

\* C21 (as stated): every request that carries an offset is sent while the
\* snapshot last fetched is newer than the last request.
C21_EveryRequestAfterFetch ==
    [][(Sends("clear_delete") \/ Sends("insert_rows") \/ Sends("fill_chunk")) => snap_fresh]_vars

----------------------------------------------------------------------------
(* The end of clear_table_body.                                            *)

\* clear_table_body is running
InClear == pc \in {"clear_get", "clear_delete"}

\* C22: clear_table_body ends on every execution, also when a read after an
\* accepted delete does not show it: every accepted delete removes one data
\* row and leaves the count of failed deletes as it is, every failed delete
\* adds one to it, the clear returns False on a failed delete exactly when
\* the count reaches max_attempts, returns True only on a snapshot of at
\* most one row, and the header row is never deleted.
C22_ClearTerminates ==
    /\ [](attempts <= max_attempts)
    /\ [](last_req.sent /\ last_req.ok =>
             /\ Len(last_req.after) = Len(last_req.before) - 1
             /\ Len(last_req.after) >= 1
             /\ Head(last_req.after) = Head(clear_start.rows))
    /\ [][Sends("clear_delete") =>
             IF last_req'.ok
             THEN attempts' = attempts /\ pc' = "clear_get"
             ELSE /\ attempts' = attempts + 1
                  /\ (clear_ret' = "false") <=> (attempts' >= max_attempts)
                  /\ (pc' = "clear_get") <=> (attempts' < max_attempts)]_vars
    /\ [][(clear_ret = "none" /\ clear_ret' = "true") =>
             /\ pc = "clear_get"
             /\ located'.found /\ Len(table_rows(snap', located')) <= 1]_vars
    /\ InClear ~> ~InClear

\* the clear has given up after max_attempts deletes the document rejected
\* because reads kept showing data rows already deleted
C22_Witness ==
    /\ pc = "done" /\ outcome = "failed"
    /\ clear_ret = "false"
    /\ attempts = max_attempts
    /\ failures = 0
    /\ ~last_req.fresh /\ ~last_req.ok
    /\ Len(last_req.before) = 1
    /\ Len(clear_start.rows) > 1

----------------------------------------------------------------------------
(* The fill after a read that does not show the rows just inserted.        *)

\* C23: whatever the fetch after the insert-row batch shows, the text
\* insertions built from it go into no row that existed before the batch,
\* the header row included, and no two of them go into the same cell (as
\* the texts of two entries put into one row would).
C23_FillSparesOldRows ==
    (pc = "fill_chunk" /\ chunk_at = 0) =>
        LET holds(spans) ==
                /\ \A q \in DOMAIN insert_requests :
                      TargetOf(spans, insert_requests[q].index).row > row_count
                /\ \A q1, q2 \in DOMAIN insert_requests :
                      TargetOf(spans, insert_requests[q1].index)
                         = TargetOf(spans, insert_requests[q2].index) => q1 = q2
        IN  holds(CellSpans(doc, located.index))

----------------------------------------------------------------------------
(* The insert-row batch.                                                   *)

\* the batch append_rows_and_fill_docs is about to send
RowBatch == insert_row_requests(start_index, row_count, Len(rows_data))

\* a row of n empty cells
EmptyRow(n) == [c \in 1..n |-> <<>>]

\* C24: the insert phase sends one batch of exactly N insertTableRow
\* requests, N the number of entries, built from the row count and the
\* table start of a snapshot fetched after the last delete (also when the
\* refresh in append_rows_and_fill_docs failed); the i-th (from 0) targets
\* row index row count - 1 + i, and the batch leaves the table with
\* row count + N rows, the rows it had unchanged and N empty rows below
\* (a batch the remote call does not carry through changes nothing).
C24_InsertBatchAppendsRows ==
    /\ [](pc = "insert_rows" =>
            /\ ~insert_sent
            /\ Len(RowBatch) = Len(batch) /\ Len(RowBatch) = Len(rows_data)
            /\ snap_fresh /\ located.found
            /\ row_count = Len(table_rows(snap, located))
            /\ start_index = StartOf(snap, located.index)
            /\ \A k \in DOMAIN RowBatch :
                  /\ RowBatch[k].op = "insertTableRow"
                  /\ RowBatch[k].index = start_index
                  /\ RowBatch[k].rowIndex = row_count - 1 + (k - 1))
    /\ [][(Sends("insert_rows") /\ ~outage /\ failures' = failures) =>
            /\ pc' = "fill_get" /\ insert_sent'
            /\ Len(doc') = Len(doc)
            /\ \A i \in DOMAIN doc : i # located.index => doc'[i] = doc[i]
            /\ doc'[located.index].rows
                  = doc[located.index].rows
                      \o [k \in 1..Len(rows_data) |->
                            EmptyRow(Len(doc[located.index].rows[row_count]))]]_vars

\* the batch of several rows is about to be sent after the refresh failed
C24_Witness ==
    /\ pc = "insert_rows"
    /\ failures = 1 /\ ~outage
    /\ Len(rows_data) >= 2
    /\ row_count = 1
    /\ clear_ret = "true" /\ last_req.sent

----------------------------------------------------------------------------
(* The ordering of the entries after the clear.                            *)

\* C25: whatever entries the store holds, a clear that returns True is
\* followed by the fetch of the insert phase with the entries ordered: no
\* sort key raises.
C25_ClearedTableIsRefilled ==
    [][(clear_ret = "none" /\ clear_ret' = "true") =>
          /\ pc' = "rebuild_get"
          /\ rows_of_batch(batch).ok
          /\ rows_data' = rows_of_batch(batch).rows]_vars

----------------------------------------------------------------------------
(* The insertion offset of a cell.                                         *)

\* the cell's first paragraph has integer start and end, the end above
ParaSpan(v) == v.has_para /\ v.start_i # None /\ v.end_i # None /\ v.end_i > v.start_i

\* the offset the priority of the three sources gives; None if none
OffsetByPriority(v) ==
    IF ParaSpan(v) THEN v.end_i - 1
    ELSE IF v.has_para /\ v.start_i # None THEN v.start_i + 1
    ELSE IF v.cell_start # None THEN v.cell_start + 1
    ELSE None

\* the cells of the row that get an insertion: an offset and a text
Filled == {c \in DOMAIN cells : /\ c \in DOMAIN rows_data[1]
                                /\ OffsetByPriority(cells[c]) # None
                                /\ rows_data[1][c] # <<>>}

\* C26: each cell of a fill row gets the one offset the priority gives; a
\* cell with no offset is skipped and only its text is dropped: every other
\* cell with a text has its insertion, at its offset, whatever the skipped
\* cell is.
C26_OneOffsetPerCellSkipDropsOne ==
    pc = "row_filled" =>
        /\ Len(insert_requests) = Cardinality(Filled)
        /\ \A c \in Filled :
              \E q \in DOMAIN insert_requests :
                 insert_requests[q] = InsertText(OffsetByPriority(cells[c]), rows_data[1][c])
        /\ \A q \in DOMAIN insert_requests :
              \E c \in Filled :
                 insert_requests[q] = InsertText(OffsetByPriority(cells[c]), rows_data[1][c])

\* the first cell had no offset and was skipped, the second was filled from
\* its own start offset
C26_Witness ==
    /\ pc = "row_filled"
    /\ OffsetByPriority(cells[1]) = None /\ rows_data[1][1] # <<>>
    /\ ~cells[2].has_para /\ cells[2].cell_start # None
    /\ Len(rows_data[1]) = 2
    /\ insert_requests = <<InsertText(cells[2].cell_start + 1, rows_data[1][2])>>


----------------------------------------------------------------------------
(* The headings of a table within a window of preceding elements.          *)

\* the text of the nearest paragraph of style `level` with text among the
\* `window` elements before position i
NearestHeadingWithin(content, i, level, window) ==
    LET J == {j \in Max(1, i - window)..(i - 1) :
                 /\ content[j].kind = "paragraph"
                 /\ content[j].style = level
                 /\ strip(content[j].text) # <<>>}
    IN  IF J = {} THEN <<>>
        ELSE strip(content[CHOOSE j \in J : \A k \in J : k <= j].text)

\* the tables some part of the path names at a level, the headings taken
\* within the window
TablesNamedWithin(content, path, window) ==
    {i \in DOMAIN content :
        /\ content[i].kind = "table"
        /\ \E k \in DOMAIN split_section_path(path) : \E level \in HeadingLevels :
              /\ NearestHeadingWithin(content, i, level, window) # <<>>
              /\ normalize(NearestHeadingWithin(content, i, level, window))
                    = split_section_path(path)[k]}

\* the headings recorded for every table are the nearest ones within the
\* window, and the tables matched are those the path names by them
HeadingsWithin(window) ==
    pc = "located" =>
        /\ \A i \in DOMAIN doc : doc[i].kind = "table" =>
              /\ candidate(doc, i).h1 = NearestHeadingWithin(doc, i, "HEADING_1", window)
              /\ candidate(doc, i).h2 = NearestHeadingWithin(doc, i, "HEADING_2", window)
              /\ candidate(doc, i).h3 = NearestHeadingWithin(doc, i, "HEADING_3", window)
        /\ IndexSet(matches) = TablesNamedWithin(doc, section, window)
        /\ \A k \in DOMAIN matches :
              /\ matches[k].h1 = NearestHeadingWithin(doc, matches[k].index, "HEADING_1", window)
              /\ matches[k].h2 = NearestHeadingWithin(doc, matches[k].index, "HEADING_2", window)
              /\ matches[k].h3 = NearestHeadingWithin(doc, matches[k].index, "HEADING_3", window)

\* C27: for every table the heading choose_table_by_section records at
\* level k is the text of the nearest preceding top-level paragraph of
\* heading level k with non-empty text among the 100 elements immediately
\* before the table; a heading farther back is ignored, and a level with no
\* such heading stays empty and never matches.
C27_NearestHeadingAmongHundredBefore == HeadingsWithin(HeadingWindow)

\* the same with the window one element shorter: the walk visits the 99
\* elements before the table
C27_NearestHeadingAmongNinetyNine == HeadingsWithin(HeadingWindow - 1)

\* a heading exactly 100 elements before its table, and none nearer of its level
C27_HeadingAtHundred ==
    /\ pc = "located"
    /\ \E i \in DOMAIN doc :
          /\ doc[i].kind = "table" /\ i > HeadingWindow
          /\ doc[i - HeadingWindow].kind = "paragraph"
          /\ doc[i - HeadingWindow].style = "HEADING_3"
          /\ strip(doc[i - HeadingWindow].text) # <<>>
          /\ candidate(doc, i).h3 = <<>>

====
